---- MODULE Spec2Model ----
(***************************************************************************)
(* KnotenWerk (src/src/app.js): the graph consistency and active-path      *)
(* engine with the handlers that drive it.                                 *)
(*                                                                         *)
(* A graph is [nodes, edges, ui]; a node is [id, type, buttons], a button  *)
(* [id, to], an edge [id, from, to, buttonId]; ui is [selectedNodeId,      *)
(* activePath, activeSelections].  Positions, texts, colours, names and    *)
(* timestamps carry no cross-reference and are left out.  Ids are strings; *)
(* the JavaScript null is the string NULL, which is no id.                 *)
(* ui.activeSelections is a function from its keys to sequences of ids.    *)
(* An entry whose value is not an array, which only a file can bring, is   *)
(* the value NotAnArray; the repair pass reads it as absent (lines 933,    *)
(* 968) and leaves array-valued entries only.                              *)
(*                                                                         *)
(* state is the state object: currentGraph, mode, selectedEdgeId, and the  *)
(* count of identifiers uid has handed out.  state.pendingChoice is never  *)
(* assigned a value other than null and is left out, as are the markers    *)
(* of the last choice, which only the drawing reads, and the drag state,   *)
(* a drag being one step from mouse down to mouse up.                      *)
(*                                                                         *)
(* Seven specifications share the variables.  Spec is the application on    *)
(* its starter graph under every handler.  EngineSpec draws a document     *)
(* and runs normalizeGraph, the repair pass and the handlers of an         *)
(* imported graph on it.  WalkSpec runs the active-path walk one call and  *)
(* one selected edge at a time.  ToggleSpec toggles choices in a row and   *)
(* keeps the selections and the path each toggle left.  ImportSpec draws   *)
(* a parsed file, well-formed or not, and normalises, imports or loads it  *)
(* with the graph list and the stored graph files at hand, and edits the   *)
(* imported graph.  AutosaveSpec is the application on its starter graph   *)
(* with the autosave timers of the window: every handler schedules the     *)
(* autosave where its code does, and a pending timer may fire at any time. *)
(* StoreSpec is the application with two graphs in its list: nodes are     *)
(* added, a graph of the list is opened, the open graph is deleted one     *)
(* await at a time, and a pending autosave timer fires in between.         *)
(***************************************************************************)
EXTENDS Integers, Sequences, FiniteSets, TLC

VARIABLES state, last, engine, walkState

vars == <<state, last, engine, walkState>>

NULL == "<null>"

DEFAULT_NODE_TYPE == "xor"

GRAPH_VERSION == 1

\* ------------------------------------------------------------------ bounds

\* How many node ids and how many edge ids the handlers may generate.
MaxNodeUid == 3
MaxEdgeUid == 2
\* How many nodes and how many edges a document lists.
MaxDocNodes == 2
MaxDocEdges == 2
\* The graphs the walk is run on, and the longest path it may write.
MaxWalkNodes == 3
MaxWalkEdges == 3
MaxPathLen == 24
\* The graphs choices are toggled on, and how many toggles in a row.
MaxToggleNodes == 3
MaxToggleEdges == 2
MaxToggles == 3
\* How many node records and how many edge records a parsed file lists.
MaxFileNodes == 2
MaxFileEdges == 2

\* ------------------------------------------------------- sequence helpers

Range(s) == {s[i] : i \in 1..Len(s)}

Includes(s, x) == \E i \in 1..Len(s) : s[i] = x

MaxOf(S) == CHOOSE m \in S : \A k \in S : k <= m

MinOf(S) == CHOOSE m \in S : \A k \in S : m <= k

Ids(s) == {s[i].id : i \in 1..Len(s)}

\* Array.prototype.find: the first element with the id.
FindFirst(s, id) == s[MinOf({i \in 1..Len(s) : s[i].id = id})]

\* new Map(array.map(x => [x.id, x])).get(id): the last element with the id.
MapGet(s, id) == s[MaxOf({i \in 1..Len(s) : s[i].id = id})]

\* The same loop with the test of the entry left out.
RECURSIVE uniqueUntested(_, _, _)
uniqueUntested(s, valid, out) ==
  IF s = <<>> THEN out
  ELSE uniqueUntested(Tail(s), valid,
                      IF ~Includes(out, Head(s))
                        THEN Append(out, Head(s)) ELSE out)

\* forEach(x => if (keep(x) && !out.includes(x)) out.push(x))
RECURSIVE UniqueIn(_, _, _)
UniqueIn(s, valid, out) ==
  IF s = <<>> THEN out
  ELSE UniqueIn(Tail(s), valid,
                IF Head(s) \in valid /\ ~Includes(out, Head(s))
                  THEN Append(out, Head(s)) ELSE out)

\* array.slice(0, 1)
Slice01(s) == IF Len(s) > 1 THEN <<s[1]>> ELSE s

\* The object {} as a map.
EmptyMap == [k \in {} |-> <<>>]

\* ---------------------------------------------------------- string values

\* String.prototype.trim on the strings of the model: the padded spellings
\* lose their padding, the blank string becomes empty.
Trim(s) ==
  CASE s = " a" -> "a"
    [] s = "b " -> "b"
    [] s = " "  -> ""
    [] OTHER    -> s

\* typeof v === 'string' && v.trim(): a string that is not blank.
NonBlankString(v) == v /= NULL /\ Trim(v) /= ""

normalizeNodeType(value) ==
  IF value \in {"or", "OR", " or"} THEN "or" ELSE "xor"

\* ------------------------------------------------------------------ lookup

findNode(g, nodeId) == FindFirst(g.nodes, nodeId)

hasNode(g, nodeId) == nodeId \in Ids(g.nodes)

findEdge(g, edgeId) == FindFirst(g.edges, edgeId)

hasEdge(g, edgeId) == edgeId \in Ids(g.edges)

edgeHasTarget(edge) == edge.to /= NULL /\ Trim(edge.to) /= ""

\* ------------------------------------------------------ active-path walk

\* walk(nodeId, stack) of rebuildActivePathFromSelections: the entries it
\* pushes to nextPath.  WalkEdges is the forEach over selectedEdgeIds.
\* The walk without its stack test.
walkNeverCuts(nodeId, stack) == FALSE

walkCutsAt(nodeId, stack) == nodeId \in stack

walkSelected(node, selections) ==
  LET rawSelected == IF node.id \in DOMAIN selections
                       THEN selections[node.id] ELSE <<>>
  IN  IF node.type = "xor" THEN Slice01(rawSelected) ELSE rawSelected

walkEdgeOk(g, nodeId, edgeId) ==
  /\ hasEdge(g, edgeId)
  /\ LET edge == MapGet(g.edges, edgeId)
     IN  edge.from = nodeId /\ edge.to /= NULL /\ hasNode(g, edge.to)

RECURSIVE walk(_, _, _, _), WalkEdges(_, _, _, _, _)
\* The walk that records nothing for a node it reaches again.
walkQuietCut(g, selections, nodeId, stack) ==
  IF ~hasNode(g, nodeId) \/ nodeId \in stack THEN <<>>
  ELSE <<nodeId>> \o
       WalkEdges(g, selections, nodeId,
                 walkSelected(MapGet(g.nodes, nodeId), selections),
                 stack \cup {nodeId})

walk(g, selections, nodeId, stack) ==
  IF ~hasNode(g, nodeId) THEN <<>>
  ELSE IF walkCutsAt(nodeId, stack) THEN <<nodeId>>
  ELSE <<nodeId>> \o
       WalkEdges(g, selections, nodeId,
                 walkSelected(MapGet(g.nodes, nodeId), selections),
                 stack \cup {nodeId})

WalkEdges(g, selections, nodeId, edgeIds, nextStack) ==
  IF edgeIds = <<>> THEN <<>>
  ELSE LET edgeId == Head(edgeIds)
           rest == WalkEdges(g, selections, nodeId, Tail(edgeIds), nextStack)
       IN  IF ~walkEdgeOk(g, nodeId, edgeId) THEN rest
           ELSE <<edgeId>>
                \o walk(g, selections, MapGet(g.edges, edgeId).to, nextStack)
                \o rest

\* The depth-first walk from the first node.
derivePath(g, selections) ==
  IF g.nodes = <<>> THEN <<>> ELSE walk(g, selections, g.nodes[1].id, {})

\* Lines 837-848: the path entries counted as nodes and as edges.
activeNodeIds(g, path) == {x \in Range(path) : x \in Ids(g.nodes)}

activeEdgeIds(g, path) ==
  {x \in Range(path) : x \notin Ids(g.nodes) /\ x \in Ids(g.edges)}

selectionsUnpruned(g, selections, path) == selections

\* Lines 850-866: the selections kept after the walk.
pruneSelections(g, selections, path) ==
  LET kept(k) == UniqueIn(selections[k], activeEdgeIds(g, path), <<>>)
      keys == {k \in DOMAIN selections :
                 k \in activeNodeIds(g, path) /\ kept(k) /= <<>>}
  IN  [k \in keys |-> kept(k)]

rebuildActivePathFromSelections(g) ==
  IF g.nodes = <<>>
    THEN [g EXCEPT !.ui.activePath = <<>>,
                   !.ui.activeSelections = EmptyMap]
    ELSE LET nextPath == derivePath(g, g.ui.activeSelections)
         IN  [g EXCEPT !.ui.activePath = nextPath,
                       !.ui.activeSelections =
                          pruneSelections(g, g.ui.activeSelections, nextPath)]

\* ------------------------------------------------- enforceGraphConsistency

\* Lines 874-890: the edges kept, with to trimmed or null.
sanitizeEdge(edge) ==
  [edge EXCEPT !.to = IF NonBlankString(edge.to) THEN Trim(edge.to) ELSE NULL]

\* The filter with the test of the target left out.
keepEdgeBySource(g, edge) == hasNode(g, edge.from)

keepEdge(g, edge) ==
  /\ hasNode(g, edge.from)
  /\ NonBlankString(edge.to) => hasNode(g, Trim(edge.to))

sanitizeEdges(g) ==
  LET kept == SelectSeq(g.edges, LAMBDA edge : keepEdge(g, edge))
  IN  [i \in 1..Len(kept) |-> sanitizeEdge(kept[i])]

outgoingOf(edges, nodeId) == SelectSeq(edges, LAMBDA edge : edge.from = nodeId)

\* Lines 906-917: one outgoing edge at a time, the button the Map holds for
\* edge.buttonId is created when missing and its to is set to the edge's.
mirrorOne(buttons, edge) ==
  LET idx == {i \in 1..Len(buttons) : buttons[i].id = edge.buttonId}
      target == IF edge.to /= NULL /\ edge.to /= "" THEN edge.to ELSE NULL
  IN  IF idx = {}
        THEN Append(buttons, [id |-> edge.buttonId, to |-> target])
        ELSE [buttons EXCEPT ![MaxOf(idx)].to = target]

RECURSIVE mirrorAll(_, _)
mirrorAll(buttons, outgoing) ==
  IF outgoing = <<>> THEN buttons
  ELSE mirrorAll(mirrorOne(buttons, Head(outgoing)), Tail(outgoing))

\* Lines 899-921 for one node.
mirrorButtons(node, edges) ==
  LET outgoing == outgoingOf(edges, node.id)
      validButtonIds == {outgoing[i].buttonId : i \in 1..Len(outgoing)}
      mirrored == mirrorAll(node.buttons, outgoing)
  IN  [node EXCEPT
         !.type = normalizeNodeType(node.type),
         !.buttons = SelectSeq(mirrored,
                               LAMBDA button : button.id \in validButtonIds)]

\* A value of activeSelections that is no array (a string, a number, null),
\* apart from every list of ids, and Array.isArray on the values.
NotAnArray == <<"<no array>">>

isArray(value) == value /= NotAnArray

\* Lines 932-934: some key of activeSelections holds an array.
hasExplicitSelections(selections) ==
  \E nodeId \in DOMAIN selections : isArray(selections[nodeId])

\* Lines 936-956: the selections read off the prior activePath.
RECURSIVE derivedSelections(_, _, _)
derivedSelections(edges, path, acc) ==
  IF path = <<>> THEN acc
  ELSE LET entry == Head(path)
       IN  IF entry \notin Ids(edges)
             THEN derivedSelections(edges, Tail(path), acc)
             ELSE LET edge == MapGet(edges, entry)
                      old == IF edge.from \in DOMAIN acc
                               THEN acc[edge.from] ELSE <<>>
                      new == IF Includes(old, edge.id)
                               THEN old ELSE Append(old, edge.id)
                  IN  derivedSelections(edges, Tail(path),
                        [k \in DOMAIN acc \cup {edge.from} |->
                           IF k = edge.from THEN new ELSE acc[k]])

\* Lines 958-958: the basis of the selection rebuild.
sourceSelections(g) ==
  IF hasExplicitSelections(g.ui.activeSelections)
    THEN g.ui.activeSelections
    ELSE derivedSelections(g.edges, g.ui.activePath, EmptyMap)

\* Lines 962-983 for one node: the valid, duplicate-free selection, cut to
\* one entry at an XOR node.
xorCap(node, uniqueSelection) ==
  IF node.type = "xor" /\ Len(uniqueSelection) > 1
    THEN <<uniqueSelection[1]>> ELSE uniqueSelection

normalizedSelectionOf(g, node, source) ==
  LET outgoing == outgoingOf(g.edges, node.id)
      validEdgeIds ==
        {outgoing[i].id : i \in
           {j \in 1..Len(outgoing) :
              /\ outgoing[j].to /= NULL /\ outgoing[j].to /= ""
              /\ hasNode(g, outgoing[j].to)}}
      rawSelection == IF node.id \in DOMAIN source /\ isArray(source[node.id])
                        THEN source[node.id] ELSE <<>>
  IN  xorCap(node, UniqueIn(rawSelection, validEdgeIds, <<>>))

\* Lines 959-990: graph.nodes.forEach, a non-empty selection of a node being
\* stored under its id.
RECURSIVE normalizedSelectionsFrom(_, _, _, _)
normalizedSelectionsFrom(g, source, i, acc) ==
  IF i > Len(g.nodes) THEN acc
  ELSE LET node == g.nodes[i]
           uniqueSelection == normalizedSelectionOf(g, node, source)
       IN  normalizedSelectionsFrom(g, source, i + 1,
             IF uniqueSelection = <<>> THEN acc
             ELSE [k \in DOMAIN acc \cup {node.id} |->
                     IF k = node.id THEN uniqueSelection ELSE acc[k]])

normalizedSelections(g, source) ==
  normalizedSelectionsFrom(g, source, 1, EmptyMap)

\* The edges filtered and the buttons mirrored, the selected node left as
\* it is.
enforceStructureKeepingSelected(graph) ==
  LET edges == sanitizeEdges(graph)
      g1 == [graph EXCEPT !.edges = edges]
  IN  [g1 EXCEPT
         !.nodes = [i \in 1..Len(g1.nodes) |->
                      mirrorButtons(g1.nodes[i], edges)]]

\* Lines 871-929: the edges filtered, the buttons mirrored, the selected
\* node checked.
enforceStructure(graph) ==
  LET edges == sanitizeEdges(graph)
      g1 == [graph EXCEPT !.edges = edges]
  IN  [g1 EXCEPT
         !.nodes = [i \in 1..Len(g1.nodes) |->
                      mirrorButtons(g1.nodes[i], edges)],
         !.ui.selectedNodeId =
            IF hasNode(g1, g1.ui.selectedNodeId)
              THEN g1.ui.selectedNodeId ELSE NULL]

\* The repair pass ending before it turns to the selections.
enforceStructureOnly(graph) == enforceStructure(graph)

\* enforceGraphConsistency(graph), the graph it leaves (lines 871-991).
enforceGraphConsistency(graph) ==
  LET g2 == enforceStructure(graph)
      g3 == [g2 EXCEPT !.ui.activeSelections =
               normalizedSelections(g2, sourceSelections(g2))]
  IN  rebuildActivePathFromSelections(g3)

\* Lines 993-995: the selected edge is dropped when it no longer exists.
enforceSelectedEdge(graph, selectedEdgeId) ==
  IF selectedEdgeId /= NULL /\ ~hasEdge(graph, selectedEdgeId)
    THEN NULL ELSE selectedEdgeId

\* ------------------------------------------------------------- identifiers

\* Every id the state holds.
UsedIds(st) ==
  LET g == st.currentGraph
  IN  Ids(g.nodes) \cup Ids(g.edges)
        \cup {g.edges[i].buttonId : i \in 1..Len(g.edges)}
        \cup UNION {Ids(g.nodes[i].buttons) : i \in 1..Len(g.nodes)}
        \cup Range(g.ui.activePath)
        \cup DOMAIN g.ui.activeSelections
        \cup UNION {Range(g.ui.activeSelections[k]) :
                      k \in DOMAIN g.ui.activeSelections}
        \cup {g.ui.selectedNodeId, st.selectedEdgeId}

\* uid(prefix) (lines 332-337): a random identifier, hence one that occurs
\* nowhere yet; the first of prefix_1, prefix_2, ... that is not in use stands
\* for it.  A handler takes the first one after those it has handed out,
\* state.uidCount counting them per kind.
uidName(prefix, k) == prefix \o "_" \o ToString(k)

nextUid(st, prefixes, kind) ==
  MinOf({k \in (st.uidCount[kind] + 1)..(st.uidCount[kind] + Cardinality(UsedIds(st)) + 1) :
           \A prefix \in prefixes : uidName(prefix, k) \notin UsedIds(st)})

uidIndex(prefixes, used) ==
  MinOf({k \in 1..(Cardinality(used) + 1) :
           \A prefix \in prefixes : uidName(prefix, k) \notin used})

uid(prefix, used) == uidName(prefix, uidIndex({prefix}, used))

\* ------------------------------------------------------------- the handlers

\* createGraph (lines 571-597).
createGraph ==
  LET startNode == [id |-> uid("n", {}), type |-> DEFAULT_NODE_TYPE,
                    buttons |-> <<>>]
  IN  [nodes |-> <<startNode>>, edges |-> <<>>,
       ui |-> [selectedNodeId |-> startNode.id, activePath |-> <<>>,
               activeSelections |-> EmptyMap]]

\* enforceGraphConsistency on state.currentGraph, with its effect on
\* state.selectedEdgeId (lines 993-995).
enforceState(st) ==
  LET g == enforceGraphConsistency(st.currentGraph)
  IN  [st EXCEPT !.currentGraph = g,
                 !.selectedEdgeId = enforceSelectedEdge(g, st.selectedEdgeId)]

\* renderGraph (lines 1219-1248): the repair pass, then drawing.
renderGraph(st) == enforceState(st)

\* ensureActivePathSeed (lines 2473-2498).
ensureActivePathSeed(st) ==
  LET g == rebuildActivePathFromSelections(st.currentGraph)
      seeded == IF g.ui.activePath = <<>> /\ g.nodes /= <<>>
                  THEN [g EXCEPT !.ui.activePath = <<g.nodes[1].id>>] ELSE g
  IN  [st EXCEPT !.currentGraph = seeded]

\* setMode (lines 313-330).
setMode(st, nextMode) ==
  LET m == IF nextMode = "view" THEN "view" ELSE "edit"
      st1 == [st EXCEPT !.mode = m]
  IN  renderGraph(IF m = "view" THEN ensureActivePathSeed(st1) ELSE st1)

\* addNodeAt (lines 2103-2132).
addNodeAt(st) ==
  LET k == nextUid(st, {"n"}, "n")
      node == [id |-> uidName("n", k), type |-> DEFAULT_NODE_TYPE,
               buttons |-> <<>>]
  IN  renderGraph([st EXCEPT
        !.uidCount.n = k,
        !.currentGraph.nodes = Append(@, node),
        !.currentGraph.ui.selectedNodeId = node.id,
        !.selectedEdgeId = NULL])

\* handleNodeLayerClick on a node body (lines 1721-1745).
selectNode(st, nodeId) ==
  renderGraph([st EXCEPT !.currentGraph.ui.selectedNodeId = nodeId,
                         !.selectedEdgeId = NULL])

\* handleEditorBackgroundClick (lines 1641-1663).
handleEditorBackgroundClick(st) ==
  renderGraph([st EXCEPT !.currentGraph.ui.selectedNodeId = NULL,
                         !.selectedEdgeId = NULL])

\* handleEdgeLayerClick (lines 1988-2018).
handleEdgeLayerClick(st, edgeId) ==
  renderGraph([st EXCEPT !.currentGraph.ui.selectedNodeId = NULL,
                         !.selectedEdgeId = edgeId])

\* Lines 2146-2149: an OR node turned XOR keeps its first selection.
retypeSelections(node, selections) ==
  IF node.type = "xor" /\ node.id \in DOMAIN selections
       /\ Len(selections[node.id]) > 1
    THEN [selections EXCEPT ![node.id] = Slice01(@)]
    ELSE selections

\* toggleNodeType (lines 2134-2163).
toggleNodeType(st, nodeId) ==
  IF st.mode /= "edit" \/ ~hasNode(st.currentGraph, nodeId) THEN st
  ELSE LET g == st.currentGraph
           i == MinOf({k \in 1..Len(g.nodes) : g.nodes[k].id = nodeId})
           node == [g.nodes[i] EXCEPT
                      !.type = IF @ = "xor" THEN "or" ELSE "xor"]
           g1 == [g EXCEPT !.nodes[i] = node,
                           !.ui.activeSelections = retypeSelections(node, @)]
       IN  renderGraph(
             [st EXCEPT !.currentGraph = rebuildActivePathFromSelections(g1)])

\* findNode(edge.from) is node i: the first node with that id.
isFoundNode(g, i) == i = MinOf({k \in 1..Len(g.nodes) : g.nodes[k].id = g.nodes[i].id})

\* source.buttons.filter(button => button.id !== edge.buttonId) for every
\* edge of gone (lines 2414-2419, 2459-2462).
dropButtonsOf(g, gone) ==
  [g EXCEPT !.nodes =
     [i \in 1..Len(g.nodes) |->
        IF ~isFoundNode(g, i) THEN g.nodes[i]
        ELSE [g.nodes[i] EXCEPT !.buttons =
                SelectSeq(@, LAMBDA button :
                  ~\E k \in 1..Len(gone) :
                     /\ gone[k].from = g.nodes[i].id
                     /\ gone[k].buttonId = button.id)]]]

\* createChoiceWithNewChildNode (lines 2227-2277).
createChoiceWithNewChildNode(st, sourceNodeId) ==
  IF ~hasNode(st.currentGraph, sourceNodeId) THEN st
  ELSE LET g == st.currentGraph
           i == MinOf({k \in 1..Len(g.nodes) : g.nodes[k].id = sourceNodeId})
           k == nextUid(st, {"b", "e"}, "e")
           buttonId == uidName("b", k)
           edgeId == uidName("e", k)
           g1 == [g EXCEPT
                    !.nodes[i].buttons = Append(@, [id |-> buttonId, to |-> NULL]),
                    !.edges = Append(@, [id |-> edgeId, from |-> sourceNodeId,
                                         to |-> NULL, buttonId |-> buttonId]),
                    !.ui.selectedNodeId = NULL]
       IN  renderGraph(enforceState(
             [st EXCEPT !.currentGraph = g1, !.selectedEdgeId = edgeId,
                        !.uidCount.e = k]))

\* The guard without the test that the target is not the source.
canAssignToSource(st, edgeId, targetNodeId) ==
  /\ st.mode = "edit"
  /\ hasEdge(st.currentGraph, edgeId)
  /\ ~edgeHasTarget(findEdge(st.currentGraph, edgeId))
  /\ hasNode(st.currentGraph, targetNodeId)
  /\ hasNode(st.currentGraph, findEdge(st.currentGraph, edgeId).from)

\* The guard of assignDanglingChoiceToNode (lines 2280-2293).
canAssign(st, edgeId, targetNodeId) ==
  /\ st.mode = "edit"
  /\ hasEdge(st.currentGraph, edgeId)
  /\ ~edgeHasTarget(findEdge(st.currentGraph, edgeId))
  /\ hasNode(st.currentGraph, targetNodeId)
  /\ hasNode(st.currentGraph, findEdge(st.currentGraph, edgeId).from)
  /\ findEdge(st.currentGraph, edgeId).from /= targetNodeId

\* assignDanglingChoiceToNode (lines 2279-2312), the state it leaves.
assignDanglingChoiceToNode(st, edgeId, targetNodeId) ==
  IF ~canAssign(st, edgeId, targetNodeId) THEN st
  ELSE LET g == st.currentGraph
           e == MinOf({k \in 1..Len(g.edges) : g.edges[k].id = edgeId})
           edge == g.edges[e]
           n == MinOf({k \in 1..Len(g.nodes) : g.nodes[k].id = edge.from})
           hit == {k \in 1..Len(g.nodes[n].buttons) :
                     g.nodes[n].buttons[k].id = edge.buttonId}
           g1 == [g EXCEPT !.edges[e].to = targetNodeId,
                           !.ui.selectedNodeId = targetNodeId]
           g2 == IF hit = {} THEN g1
                 ELSE [g1 EXCEPT !.nodes[n].buttons[MinOf(hit)].to = targetNodeId]
       IN  renderGraph(enforceState(
             [st EXCEPT !.currentGraph = g2, !.selectedEdgeId = NULL]))

\* handleEdgeLayerMouseDown on the handle of a dangling edge (lines
\* 1941-1986), then handleWindowMouseUp over a node (lines 1881-1893).
connectDrag(st, edgeId, targetNodeId) ==
  LET down == renderGraph([st EXCEPT !.selectedEdgeId = edgeId,
                                     !.currentGraph.ui.selectedNodeId = NULL])
  IN  IF targetNodeId /= findEdge(st.currentGraph, edgeId).from
        THEN assignDanglingChoiceToNode(down, edgeId, targetNodeId)
        ELSE down

\* deleteSelectedNodeFlow without the repair that follows the removal.
deleteSelectedNodeUnrepaired(st) ==
  LET g == st.currentGraph
      nodeId == g.ui.selectedNodeId
  IN  IF st.mode /= "edit" \/ nodeId = NULL \/ ~hasNode(g, nodeId) THEN st
      ELSE LET touches(edge) == edge.from = nodeId \/ edge.to = nodeId
               g1 == dropButtonsOf(g, SelectSeq(g.edges, touches))
               g2 == [g1 EXCEPT
                        !.edges = SelectSeq(@, LAMBDA edge : ~touches(edge)),
                        !.nodes = SelectSeq(@, LAMBDA item : item.id /= nodeId),
                        !.ui.selectedNodeId = NULL]
           IN  [st EXCEPT !.currentGraph = g2, !.selectedEdgeId = NULL]

\* deleteSelectedNodeFlow, confirmed (lines 2385-2434).
deleteSelectedNodeFlow(st) ==
  LET g == st.currentGraph
      nodeId == g.ui.selectedNodeId
  IN  IF st.mode /= "edit" \/ nodeId = NULL \/ ~hasNode(g, nodeId) THEN st
      ELSE LET touches(edge) == edge.from = nodeId \/ edge.to = nodeId
               g1 == dropButtonsOf(g, SelectSeq(g.edges, touches))
               g2 == [g1 EXCEPT
                        !.edges = SelectSeq(@, LAMBDA edge : ~touches(edge)),
                        !.nodes = SelectSeq(@, LAMBDA item : item.id /= nodeId),
                        !.ui.selectedNodeId = NULL]
           IN  renderGraph(enforceState(
                 [st EXCEPT !.currentGraph = g2, !.selectedEdgeId = NULL]))

\* deleteSelectedChoiceFlow, confirmed (lines 2436-2471).
deleteSelectedChoiceFlow(st) ==
  LET g == st.currentGraph
  IN  IF st.mode /= "edit" \/ ~hasEdge(g, st.selectedEdgeId) THEN st
      ELSE LET edge == findEdge(g, st.selectedEdgeId)
               g1 == dropButtonsOf(g, <<edge>>)
               g2 == [g1 EXCEPT
                        !.edges = SelectSeq(@, LAMBDA item : item.id /= edge.id)]
           IN  renderGraph(enforceState(
                 [st EXCEPT !.currentGraph = g2, !.selectedEdgeId = NULL]))

\* ---------------------------------------------------------- selection model

\* The guard without its test of the target.
selectableWithoutTarget(g, edgeId) ==
  /\ hasEdge(g, edgeId)
  /\ hasNode(g, findEdge(g, edgeId).from)

\* The guard of applyTypedEdgeSelection (lines 2505-2513): the edge exists,
\* has a target, and its source node exists.
selectable(g, edgeId) ==
  /\ hasEdge(g, edgeId)
  /\ edgeHasTarget(findEdge(g, edgeId))
  /\ hasNode(g, findEdge(g, edgeId).from)

\* Lines 2517-2521: the node's current selection without duplicates.
currentSelectionOf(selections, nodeId) ==
  IF nodeId \in DOMAIN selections
    THEN UniqueIn(selections[nodeId], Range(selections[nodeId]) \ {""}, <<>>)
    ELSE <<>>

\* delete selections[key]
deleteKey(selections, key) ==
  [k \in DOMAIN selections \ {key} |-> selections[k]]

\* selections[key] = value
setKey(selections, key, value) ==
  [k \in DOMAIN selections \cup {key} |->
     IF k = key THEN value ELSE selections[k]]

\* The OR branch storing the toggled edge alone instead of appending it.
orToggleReplacing(selections, nodeId, edgeId) ==
  IF Includes(currentSelectionOf(selections, nodeId), edgeId)
    THEN [selections |-> deleteKey(selections, nodeId),
          edgeIsSelected |-> FALSE]
    ELSE [selections |-> setKey(selections, nodeId, <<edgeId>>),
          edgeIsSelected |-> TRUE]

\* The OR branch putting a newly selected edge first instead of last.
orTogglePrepending(selections, nodeId, edgeId) ==
  LET currentSelection == currentSelectionOf(selections, nodeId)
  IN  IF Includes(currentSelection, edgeId)
        THEN [selections |-> deleteKey(selections, nodeId),
              edgeIsSelected |-> FALSE]
        ELSE [selections |-> setKey(selections, nodeId,
                                    <<edgeId>> \o currentSelection),
              edgeIsSelected |-> TRUE]

\* Lines 2524-2537: the toggle at an OR node.
orToggle(selections, nodeId, edgeId) ==
  LET currentSelection == currentSelectionOf(selections, nodeId)
      nextSelection == SelectSeq(currentSelection, LAMBDA id : id /= edgeId)
  IN  IF Includes(currentSelection, edgeId)
        THEN [selections |-> IF nextSelection /= <<>>
                               THEN setKey(selections, nodeId, nextSelection)
                               ELSE deleteKey(selections, nodeId),
              edgeIsSelected |-> FALSE]
        ELSE [selections |-> setKey(selections, nodeId,
                                    Append(currentSelection, edgeId)),
              edgeIsSelected |-> TRUE]

\* The XOR branch doing what the OR branch does.
xorToggleAsOr(selections, nodeId, edgeId) == orToggle(selections, nodeId, edgeId)

\* Lines 2538-2546: the toggle at an XOR node.
xorToggle(selections, nodeId, edgeId) ==
  IF currentSelectionOf(selections, nodeId) = <<edgeId>>
    THEN [selections |-> deleteKey(selections, nodeId),
          edgeIsSelected |-> FALSE]
    ELSE [selections |-> setKey(selections, nodeId, <<edgeId>>),
          edgeIsSelected |-> TRUE]

\* What applyTypedEdgeSelection returns: null, or the selection result.
NoSelection == [ok |-> FALSE, edgeIsSelected |-> FALSE, sourceNodeType |-> NULL]

\* applyTypedEdgeSelection (lines 2500-2575): the state it leaves and the
\* value it returns.
applyTypedEdgeSelection(st, edgeId) ==
  IF ~selectable(st.currentGraph, edgeId)
    THEN [st |-> st, selection |-> NoSelection]
    ELSE LET g == st.currentGraph
             edge == findEdge(g, edgeId)
             sourceNode == findNode(g, edge.from)
             sourceNodeType == normalizeNodeType(sourceNode.type)
             t == IF sourceNodeType = "or"
                    THEN orToggle(g.ui.activeSelections, sourceNode.id, edge.id)
                    ELSE xorToggle(g.ui.activeSelections, sourceNode.id, edge.id)
             g1 == rebuildActivePathFromSelections(
                     [g EXCEPT !.ui.activeSelections = t.selections])
         IN  [st |-> [st EXCEPT !.currentGraph = g1],
              selection |-> [ok |-> TRUE, edgeIsSelected |-> t.edgeIsSelected,
                             sourceNodeType |-> sourceNodeType]]

\* followChoice (lines 2577-2596).
followChoice(st, edgeId) ==
  IF st.mode /= "view" THEN [st |-> st, selection |-> NoSelection]
  ELSE LET r == applyTypedEdgeSelection(st, edgeId)
       IN  IF ~r.selection.ok THEN r
           ELSE [r EXCEPT !.st = renderGraph(r.st)]

\* The click that leaves the editor's selection as it was.
clickKeepingSelection(st, edgeId) ==
  IF st.mode /= "edit" THEN followChoice(st, edgeId)
  ELSE LET r == applyTypedEdgeSelection(st, edgeId)
       IN  [r EXCEPT !.st = renderGraph(r.st)]

\* handleEdgeControlLayerClick (lines 2040-2081).
handleEdgeControlLayerClick(st, edgeId) ==
  IF st.mode /= "edit" THEN followChoice(st, edgeId)
  ELSE IF hasEdge(st.currentGraph, edgeId)
            /\ ~edgeHasTarget(findEdge(st.currentGraph, edgeId))
    THEN [st |-> renderGraph([st EXCEPT
                   !.selectedEdgeId = edgeId,
                   !.currentGraph.ui.selectedNodeId = NULL]),
          selection |-> NoSelection]
    ELSE LET r == applyTypedEdgeSelection(st, edgeId)
         IN  [r EXCEPT !.st = renderGraph([r.st EXCEPT
                !.selectedEdgeId =
                   IF r.selection.ok /\ r.selection.edgeIsSelected
                     THEN edgeId ELSE NULL,
                !.currentGraph.ui.selectedNodeId = NULL])]

\* clearActivePath (lines 2598-2614).
clearActivePath(st) ==
  LET st1 == [st EXCEPT !.currentGraph.ui.activeSelections = EmptyMap,
                        !.currentGraph.ui.activePath = <<>>]
  IN  renderGraph(IF st.mode = "view" THEN ensureActivePathSeed(st1) ELSE st1)

\* ------------------------------------------------------------ normalizeGraph

\* A document is [nodes, edges, ui]: nodes of [id, type, buttons], buttons of
\* [id, to], edges of [id, from, to, buttonId], a missing or non-string field
\* being NULL.

\* An entry of nodes, edges or buttons that is no object (null, a number, a
\* string) has no fields: it is the empty record.
NoObject == <<>>

isObject(raw) == DOMAIN raw /= {}

\* Every string of a document, as written and trimmed: what a random
\* identifier does not collide with.
DocStrings(input) ==
  LET nodes == SelectSeq(input.nodes, isObject)
      edges == SelectSeq(input.edges, isObject)
      raw == {nodes[i].id : i \in 1..Len(nodes)}
               \cup UNION {Ids(SelectSeq(nodes[i].buttons, isObject)) :
                             i \in 1..Len(nodes)}
               \cup {edges[i].id : i \in 1..Len(edges)}
               \cup {edges[i].from : i \in 1..Len(edges)}
               \cup {edges[i].to : i \in 1..Len(edges)}
               \cup {edges[i].buttonId : i \in 1..Len(edges)}
               \cup Range(input.ui.activePath)
               \cup DOMAIN input.ui.activeSelections
               \cup UNION {Range(input.ui.activeSelections[k]) :
                             k \in DOMAIN input.ui.activeSelections}
               \cup {input.ui.selectedNodeId}
  IN  raw \cup {Trim(x) : x \in raw \ {NULL}}

\* The id as written, taken or not.
acceptIdUntested(rawId, prefix, taken, used) ==
  IF NonBlankString(rawId) THEN Trim(rawId) ELSE uid(prefix, used \cup taken)

\* Lines 659-664, 675-683, 752-757: the id as written when it is a non-blank
\* string that is not taken, a generated one otherwise.
acceptId(rawId, prefix, taken, used) ==
  IF NonBlankString(rawId) /\ Trim(rawId) \notin taken
    THEN Trim(rawId) ELSE uid(prefix, used \cup taken)

\* Lines 666-697: the buttons of one node.
RECURSIVE normalizeButtons(_, _, _)
normalizeButtons(rawButtons, used, acc) ==
  IF rawButtons = <<>> THEN acc
  ELSE IF ~isObject(Head(rawButtons))
    THEN normalizeButtons(Tail(rawButtons), used, acc)
  ELSE LET rawButton == Head(rawButtons)
           buttonId == acceptId(rawButton.id, "b", Ids(acc), used)
       IN  normalizeButtons(Tail(rawButtons), used,
             Append(acc, [id |-> buttonId,
                          to |-> IF NonBlankString(rawButton.to)
                                   THEN Trim(rawButton.to) ELSE NULL]))

\* Lines 654-711: the nodes.
RECURSIVE normalizeNodes(_, _, _)
normalizeNodes(rawNodes, used, acc) ==
  IF rawNodes = <<>> THEN acc
  ELSE IF ~isObject(Head(rawNodes))
    THEN normalizeNodes(Tail(rawNodes), used, acc)
  ELSE LET rawNode == Head(rawNodes)
           nodeId == acceptId(rawNode.id, "n", Ids(acc), used)
       IN  normalizeNodes(Tail(rawNodes), used,
             Append(acc, [id |-> nodeId,
                          type |-> normalizeNodeType(rawNode.type),
                          buttons |-> normalizeButtons(rawNode.buttons, used, <<>>)]))

\* The test of an edge record asking for a target that resolves.
edgeAcceptedWithTarget(nodes, rawEdge) ==
  /\ isObject(rawEdge)
  /\ rawEdge.from /= NULL
  /\ Trim(rawEdge.from) \in Ids(nodes)
  /\ NonBlankString(rawEdge.to)
  /\ Trim(rawEdge.to) \in Ids(nodes)

\* Lines 732-750: the edge record is taken.
edgeAccepted(nodes, rawEdge) ==
  /\ isObject(rawEdge)
  /\ rawEdge.from /= NULL
  /\ Trim(rawEdge.from) /= ""
  /\ Trim(rawEdge.from) \in Ids(nodes)
  /\ NonBlankString(rawEdge.to) => Trim(rawEdge.to) \in Ids(nodes)

\* Lines 727-770: the edges.
RECURSIVE normalizeEdges(_, _, _, _)
normalizeEdges(rawEdges, nodes, used, acc) ==
  IF rawEdges = <<>> THEN acc
  ELSE LET rawEdge == Head(rawEdges)
           edgeId == acceptId(rawEdge.id, "e", Ids(acc), used)
           buttonIds == {acc[i].buttonId : i \in 1..Len(acc)}
       IN  normalizeEdges(Tail(rawEdges), nodes, used,
             IF ~edgeAccepted(nodes, rawEdge) THEN acc
             ELSE Append(acc,
                    [id |-> edgeId,
                     from |-> Trim(rawEdge.from),
                     to |-> IF NonBlankString(rawEdge.to)
                              THEN Trim(rawEdge.to) ELSE NULL,
                     buttonId |-> IF NonBlankString(rawEdge.buttonId)
                                    THEN Trim(rawEdge.buttonId)
                                    ELSE uid("b", used \cup buttonIds)]))

\* The node records as they are, none being made up.
withoutFallbackRoot(nodes, used) == nodes

\* Lines 713-723: the fallback root of a document without nodes.
withFallbackRoot(nodes, used) ==
  IF nodes = <<>>
    THEN <<[id |-> uid("n", used), type |-> DEFAULT_NODE_TYPE, buttons |-> <<>>]>>
    ELSE nodes

\* Lines 629-770: the graph built from the records of a document whose root,
\* version, nodes and edges pass the checks of lines 613-627.
normalizedRecords(input) ==
  LET used == DocStrings(input)
      nodes == withFallbackRoot(normalizeNodes(input.nodes, used, <<>>), used)
      usedNow == used \cup Ids(nodes)
                   \cup UNION {Ids(nodes[i].buttons) : i \in 1..Len(nodes)}
  IN  [nodes |-> nodes,
       edges |-> normalizeEdges(input.edges, nodes, usedNow, <<>>),
       ui |-> [selectedNodeId |-> input.ui.selectedNodeId,
               activePath |-> input.ui.activePath,
               activeSelections |-> input.ui.activeSelections]]

\* normalizeGraph (lines 612-774) for such a document, when the repair pass
\* of line 772 returns.
normalizeGraph(input) == enforceGraphConsistency(normalizedRecords(input))

\* loadGraphFromSummary (lines 1125-1149) on a stored document.
loadGraphFromSummary(st, input) ==
  LET st1 == [st EXCEPT !.currentGraph = normalizeGraph(input),
                        !.selectedEdgeId = NULL]
  IN  renderGraph(IF st.mode = "view" THEN ensureActivePathSeed(st1) ELSE st1)

\* importGraphFromJson (lines 3181-3216): the document is normalised,
\* stored, and loaded from the store.
importGraphFromJson(st, input) ==
  loadGraphFromSummary(st, normalizeGraph(input))

\* ------------------------------------------------------------ parsed files

\* A parsed file is [root, id, version, nodesIsArray, nodes, edgesIsArray,
\* edges, ui]: root tells what JSON value the file holds, version is <<>> when
\* the field is missing or no number and <<v>> otherwise, and nodes and edges
\* are <<>> when the field is no array.

\* Lines 613-627: the error normalizeGraph throws on a malformed file.
NoError == [name |-> NULL, sourceLabel |-> NULL, message |-> NULL]

validationError(input, sourceLabel) ==
  IF input.root \notin {"object", "array"}
    THEN [name |-> "Error", sourceLabel |-> sourceLabel,
          message |-> "root must be an object."]
  ELSE IF input.version /= <<>> /\ input.version[1] > GRAPH_VERSION
    THEN [name |-> "Error", sourceLabel |-> sourceLabel,
          message |-> "unsupported graph version"]
  ELSE IF ~input.nodesIsArray
    THEN [name |-> "Error", sourceLabel |-> sourceLabel,
          message |-> "nodes must be an array."]
  ELSE IF ~input.edgesIsArray
    THEN [name |-> "Error", sourceLabel |-> sourceLabel,
          message |-> "edges must be an array."]
  ELSE NoError

\* The properties every object literal inherits: derivedSelections = {}
\* (line 936) holds a value under each of these names from the start.
ObjectPrototypeKeys ==
  {"constructor", "__proto__", "toString", "valueOf", "hasOwnProperty"}

\* Lines 938-954: derivedSelections[edge.from] is taken for the list of the
\* node when it is truthy; under an inherited name it is no array, and the
\* call of its includes (line 952) throws a TypeError.
derivedSelectionsThrows(edges, path) ==
  \E i \in 1..Len(path) :
    /\ path[i] \in Ids(edges)
    /\ MapGet(edges, path[i]).from \in ObjectPrototypeKeys

\* enforceGraphConsistency (lines 871-1000) throws.
enforceGraphConsistencyThrows(graph) ==
  LET g2 == enforceStructure(graph)
  IN  /\ ~hasExplicitSelections(g2.ui.activeSelections)
      /\ derivedSelectionsThrows(g2.edges, g2.ui.activePath)

fileRecords(input) == [nodes |-> input.nodes, edges |-> input.edges, ui |-> input.ui]

\* normalizeGraph(input, sourceLabel) (lines 612-774): the error it throws or
\* the graph it returns, and the count of skipped records it hands to the
\* caller: none, the graph being all that line 773 returns.
normalizeGraphOutcome(input, sourceLabel) ==
  IF validationError(input, sourceLabel) /= NoError
    THEN [error |-> validationError(input, sourceLabel), returned |-> <<>>,
          skipped |-> <<>>]
  ELSE IF enforceGraphConsistencyThrows(normalizedRecords(fileRecords(input)))
    THEN [error |-> [name |-> "TypeError", sourceLabel |-> NULL,
                     message |-> "derivedSelections[edge.from].includes is not a function"],
          returned |-> <<>>, skipped |-> <<>>]
  ELSE [error |-> NoError, returned |-> <<normalizeGraph(fileRecords(input))>>,
        skipped |-> <<>>]

\* JSON.stringify(graph) as persistGraph writes it (lines 1151-1156).
graphFile(graph, graphId) ==
  [root |-> "object", id |-> graphId, version |-> <<GRAPH_VERSION>>,
   nodesIsArray |-> TRUE, nodes |-> graph.nodes,
   edgesIsArray |-> TRUE, edges |-> graph.edges, ui |-> graph.ui]

\* The store is [summaries, files]: state.graphSummaries as the ids it lists
\* and the graph files by id.

\* loadGraphFromSummary (lines 1125-1149) on a summary of the store: the
\* state it leaves, an error being caught (lines 1145-1148).
loadGraphFromStore(st, store, graphId) ==
  IF normalizeGraphOutcome(store.files[graphId], graphId).error /= NoError
    THEN st
    ELSE loadGraphFromSummary(st, fileRecords(store.files[graphId]))

\* loadGraphById (lines 1117-1123).
loadGraphById(st, store, graphId) ==
  IF ~Includes(store.summaries, graphId) THEN st
  ELSE loadGraphFromStore(st, store, graphId)

\* importGraphFromJson (lines 3181-3216) on a parsed file: the state and the
\* store it leaves, an error being caught (lines 3212-3215).
importGraphFromFile(st, store, input) ==
  LET outcome == normalizeGraphOutcome(input, "imported file")
      taken == Range(store.summaries) \cup DOMAIN store.files
      ownId == IF input.id /= NULL /\ input.id /= ""
                 THEN input.id ELSE uid("g", taken)
      graphId == IF ownId \in taken THEN uid("g", taken) ELSE ownId
      stored == [summaries |-> <<graphId>> \o store.summaries,
                 files |-> [k \in DOMAIN store.files \cup {graphId} |->
                              IF k = graphId
                                THEN graphFile(outcome.returned[1], graphId)
                                ELSE store.files[k]]]
  IN  IF outcome.error /= NoError THEN [st |-> st, store |-> store]
      ELSE [st |-> loadGraphById(st, stored, graphId), store |-> stored]

\* ------------------------------------------------------------ the application

\* The state object (lines 33-54) once initialize() has created and loaded
\* the starter graph and set the edit mode (lines 78-90).
startState ==
  setMode(loadGraphFromSummary(
            [currentGraph |-> createGraph, mode |-> "edit",
             selectedEdgeId |-> NULL, uidCount |-> [n |-> 1, e |-> 0]],
            createGraph),
          "edit")

\* What the last handler was, what its selection toggle returned, and the
\* edges of the active path that its deletion of a node removed.
Did(op, edgeId, selection) ==
  IF op = "deleteNode"
    THEN [op |-> "deleteNode", edgeId |-> NULL, result |-> NULL,
          removed |-> <<>>]
  ELSE IF op /= "toggle"
    THEN [op |-> "other", edgeId |-> NULL, result |-> NULL, removed |-> <<>>]
  ELSE IF ~selection.ok
    THEN [op |-> "toggle", edgeId |-> edgeId, result |-> "null",
          removed |-> <<>>]
  ELSE [op |-> "toggle", edgeId |-> edgeId,
        result |-> IF selection.edgeIsSelected THEN "selected" ELSE "deselected",
        removed |-> <<>>]

idle == [pc |-> "idle"]

Init ==
  /\ state = startState
  /\ last = Did("initialize", NULL, NoSelection)
  /\ engine = idle
  /\ walkState = idle

NodeIds == Ids(state.currentGraph.nodes)

EdgeIds == Ids(state.currentGraph.edges)

\* An edge id no edge carries.
UnknownEdgeId == "zz"

Step(op, st) ==
  /\ state' = st
  /\ last' = Did(op, NULL, NoSelection)
  /\ UNCHANGED <<engine, walkState>>

AddNode ==
  /\ state.mode = "edit"
  /\ state.uidCount.n < MaxNodeUid
  /\ Step("addNode", addNodeAt(state))

SelectNode ==
  \E nodeId \in NodeIds : Step("selectNode", selectNode(state, nodeId))

BackgroundClick ==
  /\ state.mode = "edit"
  /\ Step("backgroundClick", handleEditorBackgroundClick(state))

EdgeClick ==
  /\ state.mode = "edit"
  /\ \E edgeId \in EdgeIds : Step("edgeClick", handleEdgeLayerClick(state, edgeId))

ToggleNodeType ==
  /\ state.mode = "edit"
  /\ \E nodeId \in NodeIds : Step("toggleNodeType", toggleNodeType(state, nodeId))

\* addChoiceFlow (lines 2202-2225) with the prompt answered.
AddChoice ==
  /\ state.mode = "edit"
  /\ state.currentGraph.ui.selectedNodeId /= NULL
  /\ state.uidCount.e < MaxEdgeUid
  /\ Step("addChoice",
          createChoiceWithNewChildNode(state, state.currentGraph.ui.selectedNodeId))

Connect ==
  /\ state.mode = "edit"
  /\ \E edgeId \in EdgeIds, targetNodeId \in NodeIds :
       /\ ~edgeHasTarget(findEdge(state.currentGraph, edgeId))
       /\ hasNode(state.currentGraph, findEdge(state.currentGraph, edgeId).from)
       /\ Step("connect", connectDrag(state, edgeId, targetNodeId))

DeleteNode ==
  /\ state.mode = "edit"
  /\ hasNode(state.currentGraph, state.currentGraph.ui.selectedNodeId)
  /\ state' = deleteSelectedNodeFlow(state)
  /\ last' = [Did("deleteNode", NULL, NoSelection) EXCEPT !.removed =
                SelectSeq(state.currentGraph.ui.activePath, LAMBDA id :
                  /\ hasEdge(state.currentGraph, id)
                  /\ state.currentGraph.ui.selectedNodeId \in
                       {findEdge(state.currentGraph, id).from,
                        findEdge(state.currentGraph, id).to})]
  /\ UNCHANGED <<engine, walkState>>

DeleteChoice ==
  /\ state.mode = "edit"
  /\ hasEdge(state.currentGraph, state.selectedEdgeId)
  /\ Step("deleteChoice", deleteSelectedChoiceFlow(state))

\* A click on a choice button: handleEdgeControlLayerClick, which toggles
\* the selection in edit mode and follows the choice in view mode.
ToggleSelection ==
  \E edgeId \in EdgeIds \cup {UnknownEdgeId} :
    LET r == handleEdgeControlLayerClick(state, edgeId)
    IN  /\ state' = r.st
        /\ last' = Did("toggle", edgeId, r.selection)
        /\ UNCHANGED <<engine, walkState>>

ClearPath == Step("clearPath", clearActivePath(state))

SetMode ==
  \E nextMode \in {"edit", "view"} : Step("setMode", setMode(state, nextMode))

Next ==
  \/ AddNode
  \/ SelectNode
  \/ BackgroundClick
  \/ EdgeClick
  \/ ToggleNodeType
  \/ AddChoice
  \/ Connect
  \/ DeleteNode
  \/ DeleteChoice
  \/ ToggleSelection
  \/ ClearPath
  \/ SetMode

Spec == Init /\ [][Next]_vars

\* ------------------------------------------------- the engine on documents

\* The documents: up to MaxDocNodes nodes and MaxDocEdges edges over a few
\* ids, "a" being both a node id and an edge id, with the selections either
\* given or left to be read off the stored activePath.
DocNodeIds == {"a", "b"}

DocEdgeIds == {"e", "a"}

DocButtonIds == {"p", "q"}

SeqsUpTo(S, n) == UNION {[1..k -> S] : k \in 0..n}

DocNodes ==
  [id : DocNodeIds, type : {"xor", "or"},
   buttons : {<<[id |-> "p", to |-> NULL]>>}]

DocEdges ==
  [id : DocEdgeIds, from : DocNodeIds, to : DocNodeIds \cup {NULL},
   buttonId : DocButtonIds]

DocSelections ==
  {EmptyMap} \cup
  {[k \in K |-> s] : K \in {{"a"}, {"a", "b"}},
                     s \in {<<"e", "a">>, <<"a", "e">>}}

DocPaths == {<<>>, <<"a", "e", "b">>}

DocUis ==
  {ui \in [selectedNodeId : {NULL}, activePath : DocPaths,
           activeSelections : DocSelections] :
     DOMAIN ui.activeSelections /= {} => ui.activePath = <<>>}

Docs ==
  [nodes : SeqsUpTo(DocNodes, MaxDocNodes),
   edges : SeqsUpTo(DocEdges, MaxDocEdges),
   ui : DocUis]

EngineInit ==
  /\ engine \in [pc : {"raw"}, graph : Docs]
  /\ state = startState
  /\ last = Did("initialize", NULL, NoSelection)
  /\ walkState = idle

\* normalizeGraph on the document.
Normalize ==
  /\ engine.pc = "raw"
  /\ engine' = [pc |-> "normalized", graph |-> normalizeGraph(engine.graph)]
  /\ UNCHANGED <<state, last, walkState>>

\* Ids are unique in every graph the program builds: normalizeGraph replaces
\* a repeated id (lines 661, 680, 754) and the handlers take theirs from uid.
UniqueIds(g) ==
  /\ \A i, j \in 1..Len(g.nodes) : g.nodes[i].id = g.nodes[j].id => i = j
  /\ \A i, j \in 1..Len(g.edges) : g.edges[i].id = g.edges[j].id => i = j

\* enforceGraphConsistency on the document taken as a graph.
Enforce ==
  /\ engine.pc = "raw"
  /\ UniqueIds(engine.graph)
  /\ engine' = [pc |-> "enforced", before |-> engine.graph,
                graph |-> enforceGraphConsistency(engine.graph)]
  /\ UNCHANGED <<state, last, walkState>>

\* The next repair pass on the same graph, as renderGraph runs it.
EnforceAgain ==
  /\ engine.pc \in {"normalized", "enforced"}
  /\ engine' = [pc |-> "again", before |-> engine.graph,
                graph |-> enforceGraphConsistency(engine.graph)]
  /\ UNCHANGED <<state, last, walkState>>

\* The document imported into the running application.
Load ==
  /\ engine.pc = "raw"
  /\ engine' = [pc |-> "loaded",
                graph |-> importGraphFromJson(startState, engine.graph).currentGraph]
  /\ UNCHANGED <<state, last, walkState>>

inMode(graph, mode) == [startState EXCEPT !.currentGraph = graph, !.mode = mode]

\* A choice of the imported graph followed in view mode.
Follow ==
  /\ engine.pc \in {"loaded", "used"}
  /\ \E edgeId \in Ids(engine.graph.edges) :
       engine' = [pc |-> "used",
                  graph |-> followChoice(inMode(engine.graph, "view"),
                                         edgeId).st.currentGraph]
  /\ UNCHANGED <<state, last, walkState>>

\* A node of the imported graph switched between XOR and OR.
Retype ==
  /\ engine.pc \in {"loaded", "used"}
  /\ \E nodeId \in Ids(engine.graph.nodes) :
       engine' = [pc |-> "used",
                  graph |-> toggleNodeType(inMode(engine.graph, "edit"),
                                           nodeId).currentGraph]
  /\ UNCHANGED <<state, last, walkState>>

\* A node of the imported graph selected and deleted.
Remove ==
  /\ engine.pc \in {"loaded", "used"}
  /\ \E nodeId \in Ids(engine.graph.nodes) :
       engine' = [pc |-> "used",
                  graph |-> deleteSelectedNodeFlow(
                              selectNode(inMode(engine.graph, "edit"),
                                         nodeId)).currentGraph]
  /\ UNCHANGED <<state, last, walkState>>

EngineNext ==
  \/ Normalize
  \/ Enforce
  \/ EnforceAgain
  \/ Load
  \/ Follow
  \/ Retype
  \/ Remove

EngineSpec == EngineInit /\ [][EngineNext]_vars

\* ------------------------------------------------- the walk, step by step

\* The graphs walked: the nodes n_1 .. n_n, all XOR or all OR, and up to
\* MaxWalkEdges edges e_1, e_2, ... between any two of them or dangling,
\* listed by source and target.  Every node selects its own outgoing edges,
\* first to last or last to first, or every node lists every edge.
WalkEdgeKinds(n) == [from : 1..n, to : 0..n]

edgeKey(n, kind) == kind.from * (n + 1) + kind.to

WalkEdgeLists(n, k) ==
  {ks \in [1..k -> WalkEdgeKinds(n)] :
     \A i \in 1..(k - 1) : edgeKey(n, ks[i]) <= edgeKey(n, ks[i + 1])}

Reverse(s) == [i \in 1..Len(s) |-> s[Len(s) + 1 - i]]

WalkGraph(n, type, ks, style) ==
  LET edges == [i \in 1..Len(ks) |->
                  [id |-> uidName("e", i),
                   from |-> uidName("n", ks[i].from),
                   to |-> IF ks[i].to = 0 THEN NULL ELSE uidName("n", ks[i].to),
                   buttonId |-> uidName("b", i)]]
      all == [i \in 1..Len(edges) |-> edges[i].id]
      own(k) == SelectSeq(all, LAMBDA id : MapGet(edges, id).from = uidName("n", k))
      chosen(k) == CASE style = "own" -> own(k)
                     [] style = "reversed" -> Reverse(own(k))
                     [] style = "none" -> <<>>
                     [] OTHER -> all
      keys == {k \in 1..n : chosen(k) /= <<>>}
  IN  [nodes |-> [k \in 1..n |-> [id |-> uidName("n", k), type |-> type,
                                  buttons |-> <<>>]],
       edges |-> edges,
       ui |-> [selectedNodeId |-> NULL, activePath |-> <<>>,
               activeSelections |->
                 [id \in {uidName("n", k) : k \in keys} |->
                    chosen(CHOOSE k \in keys : uidName("n", k) = id)]]]

\* A frame of the recursion: walk(nodeId, stack) just called, or inside its
\* forEach with the edge ids still to visit.
callFrame(nodeId, stack) ==
  [phase |-> "call", nodeId |-> nodeId, stack |-> stack, todo |-> <<>>]

\* rebuildActivePathFromSelections at walk(rootNodeId) (line 834).
walkStart(g) ==
  [pc |-> "walking", graph |-> g, path |-> <<>>,
   frames |-> <<callFrame(g.nodes[1].id, {})>>, cut |-> FALSE]

WalkInit ==
  /\ \E n \in 1..MaxWalkNodes, k \in 0..MaxWalkEdges,
        type \in {"xor", "or"}, style \in {"own", "reversed", "all"} :
       \E ks \in WalkEdgeLists(n, k) :
         walkState = walkStart(WalkGraph(n, type, ks, style))
  /\ state = startState
  /\ last = Did("initialize", NULL, NoSelection)
  /\ engine = idle

walkTop == walkState.frames[Len(walkState.frames)]

walkPopped(ws) ==
  LET frames == SubSeq(ws.frames, 1, Len(ws.frames) - 1)
  IN  [ws EXCEPT !.frames = frames,
                 !.pc = IF frames = <<>> THEN "done" ELSE "walking"]

\* Lines 806-821: the call looks its node up, records it, and returns at a
\* node of its own stack or starts the forEach.
WalkCall ==
  /\ walkState.pc = "walking"
  /\ walkTop.phase = "call"
  /\ Len(walkState.path) < MaxPathLen
  /\ LET g == walkState.graph
         nodeId == walkTop.nodeId
         recorded == [walkState EXCEPT !.path = Append(@, nodeId)]
     IN  walkState' =
           IF ~hasNode(g, nodeId) THEN walkPopped(walkState)
           ELSE IF walkCutsAt(nodeId, walkTop.stack)
             THEN walkPopped([recorded EXCEPT !.cut = TRUE])
           ELSE [recorded EXCEPT
                   ![ "frames" ][Len(walkState.frames)] =
                      [phase |-> "loop", nodeId |-> nodeId,
                       stack |-> walkTop.stack \cup {nodeId},
                       todo |-> walkSelected(MapGet(g.nodes, nodeId),
                                             g.ui.activeSelections)]]
  /\ UNCHANGED <<state, last, engine>>

\* Lines 823-831: one selected edge id; a valid one is recorded and its
\* target walked.
WalkEdge ==
  /\ walkState.pc = "walking"
  /\ walkTop.phase = "loop"
  /\ walkTop.todo /= <<>>
  /\ Len(walkState.path) < MaxPathLen
  /\ LET g == walkState.graph
         edgeId == Head(walkTop.todo)
         rest == [walkState EXCEPT
                    ![ "frames" ][Len(walkState.frames)].todo = Tail(@)]
     IN  walkState' =
           IF ~walkEdgeOk(g, walkTop.nodeId, edgeId) THEN rest
           ELSE [rest EXCEPT
                   !.path = Append(@, edgeId),
                   !.frames = Append(@, callFrame(MapGet(g.edges, edgeId).to,
                                                  walkTop.stack))]
  /\ UNCHANGED <<state, last, engine>>

\* The forEach is through: the call returns.
WalkReturn ==
  /\ walkState.pc = "walking"
  /\ walkTop.phase = "loop"
  /\ walkTop.todo = <<>>
  /\ walkState' = walkPopped(walkState)
  /\ UNCHANGED <<state, last, engine>>

WalkNext ==
  \/ WalkCall
  \/ WalkEdge
  \/ WalkReturn

\* The walk is synchronous code: once called it runs on.
WalkSpec == WalkInit /\ [][WalkNext]_vars /\ WF_vars(WalkNext)

\* ------------------------------------------------- choices toggled in a row

\* The end nodes without the filter on selected outgoing edges: every node
\* of the active path.
collectActiveNodes(graph) ==
  LET path == graph.ui.activePath
  IN  SelectSeq(path, LAMBDA x : hasNode(graph, x))

\* The filter turned round: the nodes of the active path that have a
\* selected outgoing edge.
collectActiveInnerNodes(graph) ==
  LET path == graph.ui.activePath
      chosen(nodeId) == IF nodeId \in DOMAIN graph.ui.activeSelections
                          THEN graph.ui.activeSelections[nodeId] ELSE <<>>
  IN  SelectSeq(path, LAMBDA x : hasNode(graph, x) /\ chosen(x) /= <<>>)

\* collectActiveEndNodes (lines 2812-2845), the ids of the nodes it returns.
collectActiveEndNodes(graph) ==
  LET path == graph.ui.activePath
      firstAt(i) == hasNode(graph, path[i])
                      /\ \A j \in 1..(i - 1) : path[j] /= path[i]
      seen == SelectSeq([i \in 1..Len(path) |-> IF firstAt(i) THEN path[i] ELSE NULL],
                        LAMBDA x : x /= NULL)
      orderedActiveNodeIds ==
        IF seen = <<>> /\ graph.nodes /= <<>> THEN <<graph.nodes[1].id>> ELSE seen
      hasActiveOutgoing(nodeId) ==
        LET chosenOutgoing == IF nodeId \in DOMAIN graph.ui.activeSelections
                                THEN graph.ui.activeSelections[nodeId] ELSE <<>>
        IN  \E i \in 1..Len(chosenOutgoing) :
              /\ hasEdge(graph, chosenOutgoing[i])
              /\ LET edge == MapGet(graph.edges, chosenOutgoing[i])
                 IN  /\ edge.from = nodeId
                     /\ edgeHasTarget(edge)
                     /\ hasNode(graph, edge.to)
  IN  SelectSeq(orderedActiveNodeIds, LAMBDA nodeId : ~hasActiveOutgoing(nodeId))

\* buildMarkdownTodo (lines 2847-2862), the entries under the heading: the
\* placeholder when there is no end node, else one entry for each.
NoEndNodes == "(No active end nodes)"

buildMarkdownTodo(graph) ==
  LET endNodes == collectActiveEndNodes(graph)
  IN  IF endNodes = <<>> THEN <<NoEndNodes>> ELSE endNodes

\* A graph of MaxToggleNodes nodes, all XOR or all OR, and up to
\* MaxToggleEdges edges, repaired and without a selection, in either mode.
ToggleInit ==
  /\ \E k \in 0..MaxToggleEdges, type \in {"xor", "or"}, mode \in {"edit", "view"} :
       \E ks \in WalkEdgeLists(MaxToggleNodes, k) :
         LET g == enforceGraphConsistency(
                    WalkGraph(MaxToggleNodes, type, ks, "none"))
         IN  /\ state = inMode(g, mode)
             /\ engine = [pc |-> "toggling", start |-> g.ui, trail |-> <<>>]
  /\ last = Did("initialize", NULL, NoSelection)
  /\ walkState = idle

\* A click on a choice button, kept with what it returned and left.
Toggle ==
  /\ engine.pc = "toggling"
  /\ Len(engine.trail) < MaxToggles
  /\ \E edgeId \in EdgeIds :
       LET r == handleEdgeControlLayerClick(state, edgeId)
           did == Did("toggle", edgeId, r.selection)
       IN  /\ state' = r.st
           /\ last' = did
           /\ engine' = [engine EXCEPT
                           !.trail = Append(@, [edgeId |-> edgeId,
                                                result |-> did.result,
                                                ui |-> r.st.currentGraph.ui])]
  /\ UNCHANGED walkState

ToggleNext ==
  \/ Toggle

ToggleSpec == ToggleInit /\ [][ToggleNext]_vars


\* ------------------------------------------------- files imported and loaded

\* The ids of the node records of a file and the ends of its edge records:
\* missing, blank, padded, unknown, the id of the edge records, and a name
\* every object inherits.
FileNodeIds == {NULL, "a", " a", "e", "constructor"}

FileFroms == <<NULL, " ", " a", "c", "constructor">>

FileTos == <<NULL, " ", "a", "c">>

FileNodes(n) ==
  [1..n -> {[id |-> id, type |-> NULL, buttons |-> <<>>] : id \in FileNodeIds}]

fileEdge(key) ==
  [id |-> "e", from |-> FileFroms[(key \div Len(FileTos)) + 1],
   to |-> FileTos[(key % Len(FileTos)) + 1], buttonId |-> NULL]

FileEdges(k) ==
  {[i \in 1..k |-> fileEdge(ks[i])] :
     ks \in {f \in [1..k -> 0..(Len(FileFroms) * Len(FileTos) - 1)] :
               \A i \in 1..(k - 1) : f[i] <= f[i + 1]}}

FileUis ==
  {[selectedNodeId |-> NULL, activePath |-> path, activeSelections |-> EmptyMap] :
     path \in {<<>>, <<"e">>}}

\* A file with a well-formed root and the given records.
recordFile(nodes, edges, ui) ==
  [root |-> "object", id |-> NULL, version |-> <<GRAPH_VERSION>>,
   nodesIsArray |-> TRUE, nodes |-> nodes,
   edgesIsArray |-> TRUE, edges |-> edges, ui |-> ui]

\* The node entries and the edge entries of the files whose root varies:
\* one node with or without buttons of one id, entries that are no objects,
\* and one choice of the node.
RootFileNodes ==
  {<<[id |-> "a", type |-> NULL, buttons |-> <<>>]>>,
   <<[id |-> "a", type |-> NULL,
      buttons |-> <<[id |-> "b", to |-> NULL], NoObject,
                    [id |-> "b ", to |-> NULL]>>]>>,
   <<NoObject>>,
   <<NoObject, [id |-> "a", type |-> NULL, buttons |-> <<>>]>>}

RootFileEdges ==
  {<<[fileEdge(Len(FileTos) * 2) EXCEPT !.buttonId = "b"]>>,
   <<NoObject, [fileEdge(Len(FileTos) * 2) EXCEPT !.buttonId = "b"]>>}

\* The files of one node and one choice: root, id, version, nodes and edges
\* vary.  A root that is no object has no fields.
RootFiles ==
  {[root |-> root, id |-> id, version |-> version,
    nodesIsArray |-> nodesIsArray,
    nodes |-> IF nodesIsArray THEN nodes ELSE <<>>,
    edgesIsArray |-> edgesIsArray,
    edges |-> IF edgesIsArray THEN edges ELSE <<>>,
    ui |-> [selectedNodeId |-> NULL, activePath |-> <<>>,
            activeSelections |-> EmptyMap]] :
     root \in {"object"}, id \in {NULL, "g_1", "g_9"},
     version \in {<<>>, <<0>>, <<GRAPH_VERSION>>, <<GRAPH_VERSION + 1>>},
     nodesIsArray \in BOOLEAN, edgesIsArray \in BOOLEAN,
     nodes \in RootFileNodes, edges \in RootFileEdges}
  \cup
  {[root |-> root, id |-> NULL, version |-> <<>>,
    nodesIsArray |-> FALSE, nodes |-> <<>>,
    edgesIsArray |-> FALSE, edges |-> <<>>,
    ui |-> [selectedNodeId |-> NULL, activePath |-> <<>>,
            activeSelections |-> EmptyMap]] :
     root \in {"array", "null", "number", "string"}}

\* The files of two nodes and two choices of the first, whose selections and
\* path vary: selections missing, no arrays, empty, of unknown edges or of a
\* choice; a path missing or naming the choices, one of them twice; and the
\* selected node missing, a node of the file or no node of it.
SelectionFileUis(n) ==
  {[selectedNodeId |-> selected, activePath |-> path, activeSelections |-> selections] :
     selected \in {NULL, "b", "x"},
     path \in {<<>>, <<"e">>, <<"f", "e", "f">>},
     selections \in {EmptyMap} \cup
                    {[k \in {n} |-> v] : v \in {NotAnArray, <<>>, <<"x">>, <<"e">>}} \cup
                    {[k \in {n, "b"} |-> IF k = n THEN NotAnArray ELSE v] :
                       v \in {NotAnArray, <<"x">>}}}

selectionFile(n, ui) ==
  recordFile(<<[id |-> n, type |-> "or", buttons |-> <<>>],
               [id |-> "b", type |-> NULL, buttons |-> <<>>]>>,
             <<[id |-> "e", from |-> n, to |-> "b", buttonId |-> NULL],
               [id |-> "f", from |-> n, to |-> n, buttonId |-> NULL]>>,
             ui)

\* The store that holds the starter graph g_1, which is open, and the file
\* as a second graph g_2.
ImportStart(file) ==
  engine = [pc |-> "file", file |-> file,
            store |-> [summaries |-> <<"g_1", "g_2">>,
                       files |-> [k \in {"g_1", "g_2"} |->
                                    IF k = "g_1"
                                      THEN graphFile(state.currentGraph, "g_1")
                                      ELSE file]],
            outcome |-> [error |-> NoError, returned |-> <<>>, skipped |-> <<>>],
            loaded |-> NULL]

\* The application with its starter graph open, in either mode. The file has
\* a well-formed root and up to MaxFileNodes node records and MaxFileEdges
\* edge records, or it is one of the files whose root varies or one of those
\* whose selections vary.
ImportInit ==
  /\ \E mode \in {"edit", "view"} : state = [startState EXCEPT !.mode = mode]
  /\ \/ \E n \in 0..MaxFileNodes, k \in 0..MaxFileEdges :
          \E nodes \in FileNodes(n), edges \in FileEdges(k), ui \in FileUis :
            ImportStart(recordFile(nodes, edges, ui))
     \/ \E file \in RootFiles : ImportStart(file)
     \/ \E n \in {"a", "constructor"} :
          \E ui \in SelectionFileUis(n) : ImportStart(selectionFile(n, ui))
  /\ last = Did("initialize", NULL, NoSelection)
  /\ walkState = idle

\* normalizeGraph on the file.
NormalizeFile ==
  /\ engine.pc = "file"
  /\ engine' = [engine EXCEPT !.pc = "normalized",
                              !.outcome = normalizeGraphOutcome(engine.file, "graph")]
  /\ UNCHANGED <<state, last, walkState>>

\* The file imported.
ImportFile ==
  /\ engine.pc = "file"
  /\ LET r == importGraphFromFile(state, engine.store, engine.file)
     IN  /\ state' = r.st
         /\ engine' = [engine EXCEPT !.pc = "imported", !.store = r.store]
  /\ UNCHANGED <<last, walkState>>

\* A graph of the list opened.
LoadFile ==
  /\ engine.pc = "file"
  /\ \E graphId \in Range(engine.store.summaries) :
       /\ state' = loadGraphById(state, engine.store, graphId)
       /\ engine' = [engine EXCEPT !.pc = "loaded", !.loaded = graphId]
  /\ UNCHANGED <<last, walkState>>

\* A node added to the graph that is open after the import.
AddNodeToImported ==
  /\ engine.pc = "imported"
  /\ state.mode = "edit"
  /\ state' = addNodeAt(state)
  /\ engine' = [engine EXCEPT !.pc = "edited"]
  /\ UNCHANGED <<last, walkState>>

\* A node of that graph selected and a choice added to it.
AddChoiceToImported ==
  /\ engine.pc = "imported"
  /\ state.mode = "edit"
  /\ \E nodeId \in NodeIds :
       state' = createChoiceWithNewChildNode(selectNode(state, nodeId), nodeId)
  /\ engine' = [engine EXCEPT !.pc = "edited"]
  /\ UNCHANGED <<last, walkState>>

ImportNext ==
  \/ NormalizeFile
  \/ ImportFile
  \/ LoadFile
  \/ AddNodeToImported
  \/ AddChoiceToImported

ImportSpec == ImportInit /\ [][ImportNext]_vars

\* ------------------------------------------------------------ autosave

\* The handlers taken and the timers set in one run.
MaxAutosaveSteps == 5

MaxTimers == 4

\* state.autosaveHandle without a timer (line 41, line 1168).
NoTimer == 0

\* scheduleAutosave that leaves the pending timer running.
scheduleAutosaveUncancelled(st, auto) ==
  IF st.mode /= "edit" THEN auto
  ELSE [auto EXCEPT !.timers = @ \cup {auto.nextTimer},
                    !.autosaveHandle = auto.nextTimer,
                    !.nextTimer = @ + 1,
                    !.bursts = IF auto.timers = {} THEN @ + 1 ELSE @]

\* scheduleAutosave (lines 1158-1184): the timer of state.autosaveHandle is
\* cleared and a new one set.  auto holds state.autosaveHandle, the timers
\* of the window that are set and have neither fired nor been cleared, and
\* the id the next setTimeout returns; bursts counts the timers set while
\* none was pending.
scheduleAutosave(st, auto) ==
  IF st.mode /= "edit" THEN auto
  ELSE [auto EXCEPT !.timers = (@ \ {auto.autosaveHandle}) \cup {auto.nextTimer},
                    !.autosaveHandle = auto.nextTimer,
                    !.nextTimer = @ + 1,
                    !.bursts = IF auto.timers = {} THEN @ + 1 ELSE @]

\* The callback of the timer (lines 1167-1183) up to the write it issues:
\* writes counts the calls of persistGraph and written is the graph handed
\* to the last one.  What follows the write touches the graph list only.
autosaveTimeout(st, auto, timer) ==
  LET st1 == enforceState(st)
  IN  [st |-> st1,
       auto |-> [auto EXCEPT !.timers = @ \ {timer},
                             !.autosaveHandle = NoTimer,
                             !.writes = @ + 1,
                             !.written = <<st1.currentGraph>>]]

AutosaveInit ==
  /\ state = startState
  /\ last = Did("initialize", NULL, NoSelection)
  /\ engine = [pc |-> "autosave", op |-> "initialize", changed |-> FALSE,
               steps |-> 0, autosaveHandle |-> NoTimer, timers |-> {},
               nextTimer |-> 1, bursts |-> 0, writes |-> 0, written |-> <<>>]
  /\ walkState = idle

\* One handler: st is the state it leaves, changed whether it changed the
\* graph, scheduled whether it went through its call of scheduleAutosave.
Handled(op, st, changed, scheduled) ==
  /\ engine.pc = "autosave"
  /\ engine.steps < MaxAutosaveSteps
  /\ scheduled => engine.nextTimer <= MaxTimers
  /\ state' = st
  /\ last' = Did(op, NULL, NoSelection)
  /\ engine' = [(IF scheduled THEN scheduleAutosave(st, engine) ELSE engine)
                  EXCEPT !.op = op, !.changed = changed, !.steps = @ + 1]
  /\ UNCHANGED walkState

\* addNodeAt, scheduleAutosave at line 2124.
AutoAddNode ==
  /\ state.mode = "edit"
  /\ state.uidCount.n < MaxNodeUid
  /\ Handled("addNode", addNodeAt(state), TRUE, TRUE)

\* The handlers that change a position, a text or a colour: a node dragged
\* (handleWindowMouseUp, line 1913), editSelectedNodeTextFlow (line 2198),
\* applyNodeColor (line 563) and editSelectedChoiceTextFlow (line 2381).
AutoRetouch ==
  /\ state.mode = "edit"
  /\ \/ /\ hasNode(state.currentGraph, state.currentGraph.ui.selectedNodeId)
        /\ \E op \in {"moveNode", "editNodeText", "setNodeColor"} :
             Handled(op, renderGraph(state), TRUE, TRUE)
     \/ /\ hasEdge(state.currentGraph, state.selectedEdgeId)
        /\ Handled("editChoiceText", renderGraph(state), TRUE, TRUE)

\* toggleNodeType, scheduleAutosave at line 2161.
AutoToggleNodeType ==
  /\ state.mode = "edit"
  /\ \E nodeId \in NodeIds :
       Handled("toggleNodeType", toggleNodeType(state, nodeId), TRUE, TRUE)

\* createChoiceWithNewChildNode, scheduleAutosave at line 2275.
AutoAddChoice ==
  /\ state.mode = "edit"
  /\ hasNode(state.currentGraph, state.currentGraph.ui.selectedNodeId)
  /\ state.uidCount.e < MaxEdgeUid
  /\ Handled("addChoice",
             createChoiceWithNewChildNode(state, state.currentGraph.ui.selectedNodeId),
             TRUE, TRUE)

\* assignDanglingChoiceToNode, scheduleAutosave at line 2309.
AutoConnect ==
  /\ state.mode = "edit"
  /\ \E edgeId \in EdgeIds, targetNodeId \in NodeIds :
       /\ ~edgeHasTarget(findEdge(state.currentGraph, edgeId))
       /\ hasNode(state.currentGraph, findEdge(state.currentGraph, edgeId).from)
       /\ findEdge(state.currentGraph, edgeId).from /= targetNodeId
       /\ Handled("connect", connectDrag(state, edgeId, targetNodeId), TRUE, TRUE)

\* deleteSelectedNodeFlow, scheduleAutosave at line 2432.
AutoDeleteNode ==
  /\ state.mode = "edit"
  /\ hasNode(state.currentGraph, state.currentGraph.ui.selectedNodeId)
  /\ Handled("deleteNode", deleteSelectedNodeFlow(state), TRUE, TRUE)

\* deleteSelectedChoiceFlow, scheduleAutosave at line 2469.
AutoDeleteChoice ==
  /\ state.mode = "edit"
  /\ hasEdge(state.currentGraph, state.selectedEdgeId)
  /\ Handled("deleteChoice", deleteSelectedChoiceFlow(state), TRUE, TRUE)

\* The selections or the active path of the graph differ.
pathChanged(before, after) ==
  \/ after.currentGraph.ui.activeSelections /= before.currentGraph.ui.activeSelections
  \/ after.currentGraph.ui.activePath /= before.currentGraph.ui.activePath

\* handleEdgeControlLayerClick (lines 2040-2081) and, in view mode,
\* followChoice (lines 2577-2596): neither calls scheduleAutosave.
AutoToggleSelection ==
  \E edgeId \in EdgeIds :
    LET st == handleEdgeControlLayerClick(state, edgeId).st
    IN  Handled("toggleSelection", st, pathChanged(state, st), FALSE)

\* clearActivePath (lines 2598-2614) does not call scheduleAutosave.
AutoClearPath ==
  /\ engine.pc = "autosave"
  /\ Handled("clearPath", clearActivePath(state),
             pathChanged(state, clearActivePath(state)), FALSE)

\* A click on a node or on an edge selects it; setMode switches the mode.
AutoSelect ==
  \/ \E nodeId \in NodeIds :
       Handled("selectNode", selectNode(state, nodeId), FALSE, FALSE)
  \/ /\ state.mode = "edit"
     /\ \E edgeId \in EdgeIds :
          Handled("edgeClick", handleEdgeLayerClick(state, edgeId), FALSE, FALSE)

AutoSetMode ==
  \E nextMode \in {"edit", "view"} :
    /\ nextMode /= state.mode
    /\ Handled("setMode", setMode(state, nextMode), FALSE, FALSE)

\* A pending timer fires.
AutosaveTimeout ==
  /\ engine.pc = "autosave"
  /\ \E timer \in engine.timers :
       LET r == autosaveTimeout(state, engine, timer)
       IN  /\ state' = r.st
           /\ engine' = [r.auto EXCEPT !.op = "timeout", !.changed = FALSE]
  /\ last' = Did("timeout", NULL, NoSelection)
  /\ UNCHANGED walkState

AutosaveNext ==
  \/ AutoAddNode
  \/ AutoRetouch
  \/ AutoToggleNodeType
  \/ AutoAddChoice
  \/ AutoConnect
  \/ AutoDeleteNode
  \/ AutoDeleteChoice
  \/ AutoToggleSelection
  \/ AutoClearPath
  \/ AutoSelect
  \/ AutoSetMode
  \/ AutosaveTimeout

AutosaveSpec == AutosaveInit /\ [][AutosaveNext]_vars

\* ------------------------------------------------------- the graph store

\* The graphs of the list at the start.
GraphIds == {"g_1", "g_2"}

\* upsertGraphSummary (lines 1096-1115): the summary of the graph is set or
\* added and the list sorted by lastModified, the graph just written first.
upsertGraphSummary(summaries, graphId) ==
  <<graphId>> \o SelectSeq(summaries, LAMBDA item : item /= graphId)

\* persistGraph (lines 1151-1156): the file of the graph written.
persistGraph(files, graph, graphId) ==
  [k \in DOMAIN files \cup {graphId} |->
     IF k = graphId THEN graphFile(graph, graphId) ELSE files[k]]

\* remove(graphPath(graphId)) (line 2733).
removeFile(files, graphId) == [k \in DOMAIN files \ {graphId} |-> files[k]]

\* readTextFile throws when the file is missing, normalizeGraph may throw
\* on its content; loadGraphFromSummary catches both (lines 1145-1148).
loads(store, graphId) ==
  /\ graphId \in DOMAIN store.files
  /\ normalizeGraphOutcome(store.files[graphId], graphId).error = NoError

\* The application with the starter graph g_1 open in edit mode and a second
\* graph g_2 in the list, both files as persistGraph wrote them for
\* createGraph (lines 78-83, 2627-2634).  engine holds the id of
\* state.currentGraph, the store, the autosave timers, the await that
\* deleteCurrentGraphFlow is at with the graph id and the summary it holds,
\* the ids of the files it has removed, and the nodes each graph had after
\* the last edit to it.
StoreInit ==
  /\ state = startState
  /\ last = Did("initialize", NULL, NoSelection)
  /\ engine = [pc |-> "store", current |-> "g_1",
               store |-> [summaries |-> <<"g_1", "g_2">>,
                          files |-> [k \in GraphIds |-> graphFile(createGraph, k)]],
               flow |-> "none", graphId |-> NULL, summary |-> NULL,
               removed |-> {}, edited |-> EmptyMap,
               autosaveHandle |-> NoTimer, timers |-> {}, nextTimer |-> 1,
               bursts |-> 0, writes |-> 0, written |-> <<>>]
  /\ walkState = idle

\* addNodeAt on the open graph, scheduleAutosave at line 2124.
StoreAddNode ==
  /\ engine.pc = "store"
  /\ engine.flow = "none"
  /\ state.mode = "edit"
  /\ state.uidCount.n < MaxNodeUid
  /\ engine.nextTimer <= MaxTimers
  /\ state' = addNodeAt(state)
  /\ engine' = [scheduleAutosave(state', engine) EXCEPT
                  !.edited = [k \in DOMAIN @ \cup {engine.current} |->
                                IF k = engine.current
                                  THEN state'.currentGraph.nodes ELSE @[k]]]
  /\ UNCHANGED <<last, walkState>>

\* A click on a graph of the list (lines 164-176): loadGraphById.
StoreLoad ==
  /\ engine.pc = "store"
  /\ engine.flow = "none"
  /\ \E graphId \in Range(engine.store.summaries) :
       /\ graphId /= engine.current
       /\ state' = loadGraphById(state, engine.store, graphId)
       /\ engine' = [engine EXCEPT !.current =
                       IF loads(engine.store, graphId) THEN graphId ELSE @]
  /\ UNCHANGED <<last, walkState>>

\* The callback of a pending timer (lines 1167-1183): state.currentGraph is
\* repaired and written under its id, and its summary set.
StoreTimeout ==
  /\ engine.pc = "store"
  /\ \E timer \in engine.timers :
       LET r == autosaveTimeout(state, engine, timer)
       IN  /\ state' = r.st
           /\ engine' = [r.auto EXCEPT
                !.store = [summaries |-> upsertGraphSummary(engine.store.summaries,
                                                            engine.current),
                           files |-> persistGraph(engine.store.files,
                                                  r.st.currentGraph,
                                                  engine.current)]]
  /\ UNCHANGED <<last, walkState>>

\* deleteCurrentGraphFlow confirmed (lines 2715-2730): graphId is read and
\* the removal of the file awaited.  Another graph is in the list.
DeleteGraphConfirmed ==
  /\ engine.pc = "store"
  /\ engine.flow = "none"
  /\ Len(engine.store.summaries) > 1
  /\ engine' = [engine EXCEPT !.flow = "removing", !.graphId = engine.current]
  /\ UNCHANGED <<state, last, walkState>>

\* The file is removed (line 2733), the summary taken off the list (line
\* 2738) and the load of the first summary awaited (line 2740).
DeleteGraphRemoved ==
  /\ engine.pc = "store"
  /\ engine.flow = "removing"
  /\ LET summaries == SelectSeq(engine.store.summaries,
                                LAMBDA item : item /= engine.graphId)
     IN  engine' = [engine EXCEPT
           !.store = [summaries |-> summaries,
                      files |-> removeFile(engine.store.files, engine.graphId)],
           !.removed = @ \cup {engine.graphId},
           !.edited = [k \in DOMAIN @ \ {engine.graphId} |-> @[k]],
           !.flow = IF summaries /= <<>> THEN "loading" ELSE "none",
           !.summary = IF summaries /= <<>> THEN summaries[1] ELSE NULL]
  /\ UNCHANGED <<state, last, walkState>>

\* The file of that summary is read and its graph opened (lines 1127-1140).
DeleteGraphLoaded ==
  /\ engine.pc = "store"
  /\ engine.flow = "loading"
  /\ state' = IF engine.summary \in DOMAIN engine.store.files
                THEN loadGraphFromStore(state, engine.store, engine.summary)
                ELSE state
  /\ engine' = [engine EXCEPT
       !.current = IF loads(engine.store, engine.summary) THEN engine.summary ELSE @,
       !.flow = "none", !.graphId = NULL, !.summary = NULL]
  /\ UNCHANGED <<last, walkState>>

StoreNext ==
  \/ StoreAddNode
  \/ StoreLoad
  \/ StoreTimeout
  \/ DeleteGraphConfirmed
  \/ DeleteGraphRemoved
  \/ DeleteGraphLoaded

\* The step of StoreTimeout, which alone counts a write, and the step of
\* DeleteGraphLoaded, which alone ends the load the flow awaits.
TimerFired == engine'.writes = engine.writes + 1

NextGraphLoaded == engine.flow = "loading" /\ engine'.flow = "none"

\* A timer that is set fires and an awaited file operation completes: weak
\* fairness of StoreTimeout, DeleteGraphRemoved and DeleteGraphLoaded, the
\* first and the last written out with the state predicate that says the
\* action is enabled.
StoreSpec ==
  /\ StoreInit
  /\ [][StoreNext]_vars
  /\ (<>[](engine.timers /= {}) => []<><<TimerFired>>_vars)
  /\ WF_vars(DeleteGraphRemoved)
  /\ (<>[](engine.flow = "loading") => []<><<NextGraphLoaded>>_vars)

\* ------------------------------------------------------------ properties

\* The graph the engine holds once a pass has run on the document.
Passed == engine.pc /= "raw"

\* The graph is the document normalised, or what the application made of it.
Imported == engine.pc \in {"normalized", "loaded", "used"}

PathIsWalk(g) == g.ui.activePath = derivePath(g, g.ui.activeSelections)

EdgesResolve(g) ==
  \A i \in 1..Len(g.edges) :
    /\ hasNode(g, g.edges[i].from)
    /\ g.edges[i].to = NULL \/ hasNode(g, g.edges[i].to)

ButtonsOf(node, edge) ==
  {k \in 1..Len(node.buttons) :
     node.buttons[k].id = edge.buttonId /\ node.buttons[k].to = edge.to}

ButtonsMirrorEdges(g) ==
  \A n \in 1..Len(g.nodes) :
    /\ \A i \in 1..Len(g.edges) :
         g.edges[i].from = g.nodes[n].id =>
           Cardinality(ButtonsOf(g.nodes[n], g.edges[i])) = 1
    /\ \A k \in 1..Len(g.nodes[n].buttons) :
         \E i \in 1..Len(g.edges) :
           /\ g.edges[i].from = g.nodes[n].id
           /\ g.edges[i].buttonId = g.nodes[n].buttons[k].id

SelectionOf(g, nodeId) ==
  IF nodeId \in DOMAIN g.ui.activeSelections
    THEN g.ui.activeSelections[nodeId] ELSE <<>>

XorCapped(g) ==
  \A n \in 1..Len(g.nodes) :
    g.nodes[n].type = "xor" => Len(SelectionOf(g, g.nodes[n].id)) <= 1

SelectionsWellFormed(g) ==
  \A k \in DOMAIN g.ui.activeSelections :
    LET s == g.ui.activeSelections[k]
    IN  /\ hasNode(g, k)
        /\ \A i, j \in 1..Len(s) : s[i] = s[j] => i = j
        /\ \A i \in 1..Len(s) :
             \E e \in 1..Len(g.edges) :
               /\ g.edges[e].id = s[i]
               /\ g.edges[e].from = k
               /\ hasNode(g, g.edges[e].to)

\* C1: after normalizeGraph, and after the operations that follow it,
\* ui.activePath is the depth-first walk from the first node over the
\* current nodes, edges and ui.activeSelections, for every document, also
\* one in which an edge id is a node id.
C1_ActivePathIsWalk == Imported => PathIsWalk(engine.graph)

\* C2: after normalizeGraph, after the repair pass and after a node is
\* deleted, every edge's from is the id of an existing node and its to is
\* null or the id of an existing node.
C2_EdgesResolve == Passed => EdgesResolve(engine.graph)

\* The repair pass has dropped an edge to a missing node and kept another.
C2_EdgeDropped ==
  /\ engine.pc = "enforced"
  /\ \E i \in 1..Len(engine.before.edges) :
       LET edge == engine.before.edges[i]
       IN  /\ hasNode(engine.before, edge.from)
           /\ edge.to /= NULL /\ ~hasNode(engine.before, edge.to)
  /\ engine.graph.edges /= <<>>

\* C3: after enforceGraphConsistency, hence after normalizeGraph, every
\* node's buttons correspond one to one to its outgoing edges: each edge has
\* exactly one button with its buttonId and its to, and no button is without
\* such an edge; also when two edges of a node carry the same buttonId.
C3_ButtonsMirrorEdges == Passed => ButtonsMirrorEdges(engine.graph)

\* C4: in every state after an import, a repair pass, a selection toggle or
\* a node-type toggle, the selection list of every XOR node has at most one
\* edge id.
C4_XorCap == Passed => XorCapped(engine.graph)

\* The repair pass found two selected edges at an XOR node and left one.
C4_XorCut ==
  /\ engine.pc = "enforced"
  /\ \E n \in 1..Len(engine.graph.nodes) :
       LET node == engine.graph.nodes[n]
       IN  /\ node.type = "xor"
           /\ Len(SelectionOf(engine.before, node.id)) = 2
           /\ Len(SelectionOf(engine.graph, node.id)) = 1

C6_EnforceIdempotent == engine.pc = "again" => engine.graph = engine.before

\* C7: the walk returns for every graph and every selection map, cycles and
\* self-loops included: a node already on its own ancestor chain is recorded
\* and left.
C7_WalkTerminates ==
  /\ <>(walkState.pc = "done")
  /\ [][(/\ walkState.pc = "walking"
          /\ walkTop.phase = "call"
          /\ walkTop.nodeId \in walkTop.stack)
         => /\ walkState'.path = Append(walkState.path, walkTop.nodeId)
            /\ walkState'.frames =
                 SubSeq(walkState.frames, 1, Len(walkState.frames) - 1)]_vars

\* The walk has returned after it met a node of its own ancestor chain.
C7_CycleCut == walkState.pc = "done" /\ walkState.cut

\* The edge ids the walk follows from a node.
Followed(g, nodeId) ==
  SelectSeq(walkSelected(MapGet(g.nodes, nodeId), g.ui.activeSelections),
            LAMBDA edgeId : walkEdgeOk(g, nodeId, edgeId))

\* The first node selects an edge to another node, which selects an edge
\* back to the first.
CycleABA(g) ==
  \E i, j \in 1..Len(g.edges) :
    LET ab == g.edges[i]
        ba == g.edges[j]
    IN  /\ ab.from = g.nodes[1].id /\ ab.to /= ab.from
        /\ ba.from = ab.to /\ ba.to = ab.from
        /\ Includes(Followed(g, ab.from), ab.id)
        /\ Includes(Followed(g, ba.from), ba.id)

OneChoiceEach(g) ==
  \A n \in 1..Len(g.nodes) : Len(Followed(g, g.nodes[n].id)) <= 1

\* C8 as stated: when the selections form a cycle A -> B -> A the path has
\* at most 2 x (number of nodes) entries.
C8_CyclePathWithinTwiceNodes ==
  (walkState.pc = "done" /\ CycleABA(walkState.graph))
    => Len(walkState.path) <= 2 * Len(walkState.graph.nodes)

\* C8: when the selections form a cycle A -> B -> A and no node has more
\* than one followed edge, the path never has more than
\* 2 x (number of nodes) + 1 entries.
C8_CyclePathBound ==
  (CycleABA(walkState.graph) /\ OneChoiceEach(walkState.graph))
    => Len(walkState.path) <= 2 * Len(walkState.graph.nodes) + 1

\* The walk of a two-node cycle has returned with five entries.
C8_CyclePathFull ==
  /\ walkState.pc = "done"
  /\ CycleABA(walkState.graph) /\ OneChoiceEach(walkState.graph)
  /\ Len(walkState.path) = 2 * Len(walkState.graph.nodes) + 1

\* What C9 compares: nodes with their buttons, edges, selections and path.
GraphData(g) == <<g.nodes, g.edges, g.ui.activeSelections, g.ui.activePath>>

Targeted(g, edgeId) == hasEdge(g, edgeId) /\ edgeHasTarget(findEdge(g, edgeId))

\* C9: a selection toggle on an edge id no edge carries, or on a dangling
\* edge, returns null and leaves nodes, edges, buttons, ui.activeSelections
\* and ui.activePath as they were.
C9_RejectedToggle ==
  [][(last'.op = "toggle" /\ ~Targeted(state.currentGraph, last'.edgeId))
       => /\ last'.result = "null"
          /\ GraphData(state'.currentGraph) = GraphData(state.currentGraph)]_vars

\* A dangling choice was followed in view mode.
C9_DanglingFollowed ==
  /\ state.mode = "view"
  /\ last.op = "toggle"
  /\ last.result = "null"
  /\ hasEdge(state.currentGraph, last.edgeId)
  /\ ~edgeHasTarget(findEdge(state.currentGraph, last.edgeId))

\* C10: what a selection toggle reports is so after the call: an edge
\* reported selected is in activeSelections[source] and in activePath, an
\* edge reported deselected is in neither; also when the edge's source node
\* is not on the active path.
C10_ToggleResultTruthful ==
  (last.op = "toggle" /\ last.result /= "null") =>
    LET g == state.currentGraph
        edge == findEdge(g, last.edgeId)
        listed == Includes(SelectionOf(g, edge.from), edge.id)
        onPath == Includes(g.ui.activePath, edge.id)
    IN  IF last.result = "selected" THEN listed /\ onPath
        ELSE ~listed /\ ~onPath

\* The toggles of a trail: the edge of the i-th, its source node, and ui
\* before and after it.
Toggles == IF engine.pc = "toggling" THEN 1..Len(engine.trail) ELSE {}

ToggledEdge(i) == findEdge(state.currentGraph, engine.trail[i].edgeId)

ToggledSource(i) == findNode(state.currentGraph, ToggledEdge(i).from)

UiBefore(i) == IF i = 1 THEN engine.start ELSE engine.trail[i - 1].ui

UiAfter(i) == engine.trail[i].ui

ChosenAt(ui, nodeId) ==
  IF nodeId \in DOMAIN ui.activeSelections
    THEN ui.activeSelections[nodeId] ELSE <<>>

\* The i-th toggle is of an attached edge leaving a node of the given type
\* that is on the active path.
ToggleOnPath(i, type) ==
  /\ edgeHasTarget(ToggledEdge(i))
  /\ ToggledSource(i).type = type
  /\ Includes(UiBefore(i).activePath, ToggledEdge(i).from)

\* C11: toggling an attached edge e of an XOR node on the active path leaves
\* the node without a selection when its selection was exactly [e], and with
\* the selection [e] in every other case.
C11_XorToggle ==
  \A i \in Toggles :
    ToggleOnPath(i, "xor") =>
      ChosenAt(UiAfter(i), ToggledEdge(i).from) =
        IF ChosenAt(UiBefore(i), ToggledEdge(i).from) = <<ToggledEdge(i).id>>
          THEN <<>> ELSE <<ToggledEdge(i).id>>

\* A toggle at an XOR node replaced the edge that was selected.
C11_XorReplaced ==
  \E i \in Toggles :
    /\ ToggleOnPath(i, "xor")
    /\ Len(ChosenAt(UiBefore(i), ToggledEdge(i).from)) = 1
    /\ ChosenAt(UiBefore(i), ToggledEdge(i).from) /= <<ToggledEdge(i).id>>
    /\ ChosenAt(UiAfter(i), ToggledEdge(i).from) = <<ToggledEdge(i).id>>

\* The i-th and the next toggle are of the same attached edge, and its source
\* is of the given type.
ToggledTwice(i, type) ==
  /\ i + 1 \in Toggles
  /\ engine.trail[i + 1].edgeId = engine.trail[i].edgeId
  /\ edgeHasTarget(ToggledEdge(i))
  /\ ToggledSource(i).type = type

\* C12 as stated: toggling an attached edge e of an XOR node twice in
\* succession leaves the node's selection as it was before the first toggle,
\* whatever it was.
C12_XorInvolution ==
  \A i \in Toggles :
    ToggledTwice(i, "xor") =>
      ChosenAt(UiAfter(i + 1), ToggledEdge(i).from) =
        ChosenAt(UiBefore(i), ToggledEdge(i).from)

\* C12: toggling an attached edge e of an XOR node twice in succession
\* restores the node's selection when it was empty or [e]; when another edge
\* was selected the node is left without a selection.
C12_XorTwice ==
  \A i \in Toggles :
    ToggledTwice(i, "xor") =>
      LET prior == ChosenAt(UiBefore(i), ToggledEdge(i).from)
      IN  ChosenAt(UiAfter(i + 1), ToggledEdge(i).from) =
            IF prior = <<ToggledEdge(i).id>> THEN prior ELSE <<>>

\* An edge selected at an XOR node was toggled off and on again.
C12_XorRestored ==
  \E i \in Toggles :
    /\ ToggledTwice(i, "xor")
    /\ ChosenAt(UiBefore(i), ToggledEdge(i).from) = <<ToggledEdge(i).id>>
    /\ ChosenAt(UiAfter(i), ToggledEdge(i).from) = <<>>
    /\ ChosenAt(UiAfter(i + 1), ToggledEdge(i).from) = <<ToggledEdge(i).id>>

\* Toggles i and i + 1 are of two distinct attached edges leaving one OR node
\* that is on the active path and has no selection.
OrPairToggled(i) ==
  /\ i + 1 \in Toggles
  /\ ToggleOnPath(i, "or")
  /\ ChosenAt(UiBefore(i), ToggledEdge(i).from) = <<>>
  /\ ToggledEdge(i + 1).id /= ToggledEdge(i).id
  /\ ToggledEdge(i + 1).from = ToggledEdge(i).from
  /\ edgeHasTarget(ToggledEdge(i + 1))

\* C13: at an OR node on the active path without a selection, toggling e1
\* and then e2 leaves the selection [e1, e2], and toggling e1 again leaves
\* [e2].
C13_OrToggles ==
  \A i \in Toggles :
    OrPairToggled(i) =>
      /\ ChosenAt(UiAfter(i + 1), ToggledEdge(i).from) =
           <<ToggledEdge(i).id, ToggledEdge(i + 1).id>>
      /\ (i + 2 \in Toggles /\ engine.trail[i + 2].edgeId = ToggledEdge(i).id) =>
           ChosenAt(UiAfter(i + 2), ToggledEdge(i).from) =
             <<ToggledEdge(i + 1).id>>

\* Two edges of an OR node were toggled on and the first one off again.
C13_OrFirstToggledOff ==
  \E i \in Toggles :
    /\ OrPairToggled(i)
    /\ i + 2 \in Toggles
    /\ engine.trail[i + 2].edgeId = ToggledEdge(i).id
    /\ ChosenAt(UiAfter(i + 1), ToggledEdge(i).from) =
         <<ToggledEdge(i).id, ToggledEdge(i + 1).id>>
    /\ ChosenAt(UiAfter(i + 2), ToggledEdge(i).from) = <<ToggledEdge(i + 1).id>>

\* The graph is a root S of the given type with two attached edges, to two
\* other nodes A and B, and no further edge.
Root == state.currentGraph.nodes[1].id

ForkAtRoot(type) ==
  LET graph == state.currentGraph
  IN  /\ engine.pc = "toggling"
      /\ graph.nodes[1].type = type
      /\ Len(graph.edges) = 2
      /\ \A i \in 1..2 : /\ graph.edges[i].from = Root
                         /\ edgeHasTarget(graph.edges[i])
                         /\ graph.edges[i].to /= Root
      /\ graph.edges[1].to /= graph.edges[2].to

\* The graph as the i-th toggle left it.
GraphAfter(i) == [state.currentGraph EXCEPT !.ui = UiAfter(i)]

\* C14: with an XOR root S and edges e1 to A and e2 to B, A and B without
\* outgoing edges, selecting an edge e to X gives the active path [S, e, X]
\* and the end nodes [X]; toggling it off again gives the active path [S] and
\* the end nodes [S].
C14_XorFork ==
  ForkAtRoot("xor") =>
    \A i \in Toggles :
      IF ChosenAt(UiBefore(i), Root) /= <<ToggledEdge(i).id>>
        THEN /\ UiAfter(i).activePath =
                  <<Root, ToggledEdge(i).id, ToggledEdge(i).to>>
             /\ collectActiveEndNodes(GraphAfter(i)) = <<ToggledEdge(i).to>>
        ELSE /\ UiAfter(i).activePath = <<Root>>
             /\ collectActiveEndNodes(GraphAfter(i)) = <<Root>>

\* An edge of the XOR root was selected and toggled off again.
C14_XorForkOnAndOff ==
  /\ ForkAtRoot("xor")
  /\ \E i \in Toggles :
       /\ ToggledTwice(i, "xor")
       /\ ChosenAt(UiBefore(i), Root) = <<>>
       /\ collectActiveEndNodes(GraphAfter(i)) = <<ToggledEdge(i).to>>
       /\ UiAfter(i + 1).activePath = <<Root>>
       /\ collectActiveEndNodes(GraphAfter(i + 1)) = <<Root>>

\* C15: with an OR root S without a selection and edges e1 to A and e2 to B,
\* toggling both edges on lists the branches in the order of the toggles,
\* whichever edge was created first: e then f gives the active path
\* [S, e, X, f, Y] and the end nodes [X, Y].
C15_OrForkInToggleOrder ==
  ForkAtRoot("or") =>
    \A i \in Toggles :
      OrPairToggled(i) =>
        /\ UiAfter(i + 1).activePath =
             <<Root, ToggledEdge(i).id, ToggledEdge(i).to,
               ToggledEdge(i + 1).id, ToggledEdge(i + 1).to>>
        /\ collectActiveEndNodes(GraphAfter(i + 1)) =
             <<ToggledEdge(i).to, ToggledEdge(i + 1).to>>

\* The edge created second was toggled on first, and its branch comes first.
C15_SecondEdgeFirst ==
  /\ ForkAtRoot("or")
  /\ \E i \in Toggles :
       /\ OrPairToggled(i)
       /\ ToggledEdge(i).id = state.currentGraph.edges[2].id
       /\ ToggledEdge(i + 1).id = state.currentGraph.edges[1].id
       /\ UiAfter(i + 1).activePath[2] = state.currentGraph.edges[2].id
       /\ collectActiveEndNodes(GraphAfter(i + 1)) =
            <<state.currentGraph.edges[2].to, state.currentGraph.edges[1].to>>

\* The step deletes a node: the selected one, and with it the edges that
\* leave it or lead to it.
NodeDeleted ==
  Len(state'.currentGraph.nodes) < Len(state.currentGraph.nodes)

DeletedNodeId == state.currentGraph.ui.selectedNodeId

DeletedEdges ==
  SelectSeq(state.currentGraph.edges, LAMBDA edge :
    edge.from = DeletedNodeId \/ edge.to = DeletedNodeId)

\* The ids an active-selections map names: its keys and its entries.
NamedIn(selections) ==
  DOMAIN selections \cup UNION {Range(selections[k]) : k \in DOMAIN selections}

\* C16: deleting a node removes every edge that leaves it or leads to it and
\* the mirrored button of each such edge from its source node; afterwards no
\* activeSelections entry and no activePath entry names the node or a removed
\* edge.
C16_DeleteNode ==
  [][NodeDeleted =>
       LET after == state'.currentGraph
           gone == {DeletedNodeId} \cup Ids(DeletedEdges)
       IN  /\ ~hasNode(after, DeletedNodeId)
           /\ \A i \in 1..Len(after.edges) :
                /\ after.edges[i].from /= DeletedNodeId
                /\ after.edges[i].to /= DeletedNodeId
           /\ Ids(after.edges) \cap Ids(DeletedEdges) = {}
           /\ \A k \in 1..Len(DeletedEdges), i \in 1..Len(after.nodes) :
                after.nodes[i].id = DeletedEdges[k].from =>
                  DeletedEdges[k].buttonId \notin Ids(after.nodes[i].buttons)
           /\ NamedIn(after.ui.activeSelections) \cap gone = {}
           /\ Range(after.ui.activePath) \cap gone = {}]_vars

\* A node was deleted whose incoming and outgoing edge were both on the
\* active path; neither is left.
C16_DeletedMidPath ==
  /\ last.op = "deleteNode"
  /\ Len(last.removed) = 2
  /\ Len(state.currentGraph.nodes) = 2
  /\ state.currentGraph.edges = <<>>
  /\ state.currentGraph.ui.activePath = <<state.currentGraph.nodes[1].id>>

\* normalizeGraph returned a graph for the file.
Normalized == engine.pc = "normalized" /\ engine.outcome.error = NoError

NormalizedGraph == engine.outcome.returned[1]

\* The file has two node records that carry one id.
SharedNodeId ==
  /\ Len(engine.file.nodes) = 2
  /\ \A i \in 1..2 : isObject(engine.file.nodes[i])
  /\ NonBlankString(engine.file.nodes[1].id)
  /\ NonBlankString(engine.file.nodes[2].id)
  /\ Trim(engine.file.nodes[1].id) = Trim(engine.file.nodes[2].id)

\* C17: of two node records with the same id normalizeGraph keeps both, the
\* first under the id and the second under a fresh id that no other accepted
\* node has; a surviving edge that names the shared id refers to the first
\* node, and every surviving edge refers to accepted nodes only.
C17_SharedNodeId ==
  (Normalized /\ SharedNodeId) =>
    LET graph == NormalizedGraph
        shared == Trim(engine.file.nodes[1].id)
    IN  /\ Len(graph.nodes) = 2
        /\ graph.nodes[1].id = shared
        /\ graph.nodes[2].id /= shared
        /\ graph.nodes[2].id \notin DocStrings(fileRecords(engine.file))
        /\ \A i \in 1..Len(graph.edges) :
             /\ graph.edges[i].from \in Ids(graph.nodes)
             /\ graph.edges[i].to \in Ids(graph.nodes) \cup {NULL}
             /\ graph.edges[i].from = shared =>
                  findNode(graph, graph.edges[i].from) = graph.nodes[1]
             /\ graph.edges[i].to = shared =>
                  findNode(graph, graph.edges[i].to) = graph.nodes[1]

\* Two records with one id were normalised, and an edge between the shared id
\* and itself survived.
C17_SharedIdWithEdge ==
  /\ Normalized
  /\ SharedNodeId
  /\ engine.file.nodes[1].id /= engine.file.nodes[2].id
  /\ Len(NormalizedGraph.nodes) = 2
  /\ NormalizedGraph.nodes[2].id /= NormalizedGraph.nodes[1].id
  /\ \E i \in 1..Len(NormalizedGraph.edges) :
       /\ NormalizedGraph.edges[i].from = NormalizedGraph.nodes[1].id
       /\ NormalizedGraph.edges[i].to = NormalizedGraph.nodes[1].id

\* The file is malformed: its root is no object, its version is a number
\* above the supported one, or its nodes or its edges are no array.
Malformed ==
  \/ engine.file.root /= "object"
  \/ engine.file.version /= <<>> /\ engine.file.version[1] > GRAPH_VERSION
  \/ ~engine.file.nodesIsArray
  \/ ~engine.file.edgesIsArray

\* C18: normalizeGraph throws an error that names sourceLabel, and returns
\* no graph, when the file is malformed, and throws in no other case.
C18_ThrowsOnMalformedOnly ==
  engine.pc = "normalized" =>
    IF Malformed
      THEN /\ engine.outcome.error.name = "Error"
           /\ engine.outcome.error.sourceLabel = "graph"
           /\ engine.outcome.returned = <<>>
      ELSE /\ engine.outcome.error = NoError
           /\ engine.outcome.returned /= <<>>

\* A call of normalizeGraph fails while the file is imported: the call on the
\* file (line 3196), or the call on the stored graph when it is opened
\* (lines 3210, 1129).
ImportFails ==
  LET outcome == normalizeGraphOutcome(engine.file, "imported file")
  IN  \/ outcome.error /= NoError
      \/ normalizeGraphOutcome(graphFile(outcome.returned[1], NULL), NULL).error
           /= NoError

\* The call of normalizeGraph fails while the graph is loaded.
LoadFails(graphId) ==
  normalizeGraphOutcome(engine.store.files[graphId], graphId).error /= NoError

\* C19: when normalizeGraph fails during an import or a load, the current
\* graph, the graph summaries and the stored graph files stay as they were.
C19_FailureHasNoEffect ==
  [][(/\ engine.pc = "file"
      /\ \/ engine'.pc = "imported" /\ ImportFails
         \/ engine'.pc = "loaded" /\ LoadFails(engine'.loaded))
       => /\ state'.currentGraph = state.currentGraph
          /\ engine'.store = engine.store]_vars

\* The edge record is one to keep: its from is a non-blank string that names
\* an accepted node, and its to is missing, blank, or names an accepted node.
EdgeToKeep(rawEdge) ==
  /\ isObject(rawEdge)
  /\ NonBlankString(rawEdge.from)
  /\ Trim(rawEdge.from) \in Ids(NormalizedGraph.nodes)
  /\ \/ ~NonBlankString(rawEdge.to)
     \/ Trim(rawEdge.to) \in Ids(NormalizedGraph.nodes)

\* The ends of an edge, a missing or blank to being null.
EndsOf(edges) ==
  [i \in 1..Len(edges) |->
     <<Trim(edges[i].from),
       IF NonBlankString(edges[i].to) THEN Trim(edges[i].to) ELSE NULL>>]

\* C20: normalizeGraph keeps exactly the edge records whose from is a
\* non-blank string naming an accepted node and whose to is missing or blank
\* (the edge is dangling, to = null) or names an accepted node; the other
\* edge records are dropped, no error is raised for them, and the kept edges
\* and the node records stay as they are.
C20_EdgesKept ==
  (engine.pc = "normalized" /\ ~Malformed
     /\ engine.outcome.error.name /= "TypeError") =>
    /\ Normalized
    /\ EndsOf(NormalizedGraph.edges) =
         EndsOf(SelectSeq(engine.file.edges, EdgeToKeep))
    /\ \A i \in 1..Len(NormalizedGraph.edges) :
         NormalizedGraph.edges[i].to = EndsOf(NormalizedGraph.edges)[i][2]
    /\ Len(NormalizedGraph.nodes) =
         IF SelectSeq(engine.file.nodes, isObject) = <<>>
           THEN 1 ELSE Len(SelectSeq(engine.file.nodes, isObject))

\* Of two edge records the one with a blank to was kept as a dangling edge
\* and the one with an unknown to was dropped.
C20_OneKeptOneDropped ==
  /\ Normalized
  /\ Len(engine.file.edges) = 2
  /\ \E i, j \in 1..2 :
       /\ engine.file.edges[i].to = " "
       /\ EdgeToKeep(engine.file.edges[i])
       /\ engine.file.edges[j].to = "c"
       /\ NonBlankString(engine.file.edges[j].from)
       /\ Trim(engine.file.edges[j].from) \in Ids(NormalizedGraph.nodes)
  /\ Len(NormalizedGraph.edges) = 1
  /\ NormalizedGraph.edges[1].to = NULL

\* No two records of the list carry one id.
DistinctIds(items) ==
  \A i, j \in 1..Len(items) : items[i].id = items[j].id => i = j

IdsDistinct(graph) ==
  /\ DistinctIds(graph.nodes)
  /\ DistinctIds(graph.edges)
  /\ \A i \in 1..Len(graph.nodes) : DistinctIds(graph.nodes[i].buttons)

\* C21: in the graph normalizeGraph returns, and in the graph that is open
\* while it is imported, loaded and edited, the node ids are pairwise
\* distinct, the edge ids are pairwise distinct, and so are the button ids
\* of each node.
C21_IdsDistinct ==
  /\ Normalized => IdsDistinct(NormalizedGraph)
  /\ engine.pc \in {"imported", "loaded", "edited"} =>
       IdsDistinct(state.currentGraph)

\* A file whose two node records carry one id was imported and a node was
\* added to its graph.
C21_EditedAfterRename ==
  /\ engine.pc = "edited"
  /\ SharedNodeId
  /\ Len(state.currentGraph.nodes) = 3
  /\ state.currentGraph.edges /= <<>>

\* No node entry of the file is an object, so that no node record survives.
NoNodeSurvives == SelectSeq(engine.file.nodes, isObject) = <<>>

\* C22: normalizeGraph returns no graph without nodes; when no node record
\* of the file survives the graph has one node, the fallback root, no edge,
\* and the active path that is the id of that node.
C22_FallbackRoot ==
  Normalized =>
    /\ NormalizedGraph.nodes /= <<>>
    /\ NoNodeSurvives =>
         /\ Len(NormalizedGraph.nodes) = 1
         /\ NormalizedGraph.nodes[1].id \notin DocStrings(fileRecords(engine.file))
         /\ NormalizedGraph.edges = <<>>
         /\ NormalizedGraph.ui.activePath = <<NormalizedGraph.nodes[1].id>>

\* A file whose only node entry is no object and which lists an edge record
\* was normalised.
C22_OnlyMalformedNodes ==
  /\ Normalized
  /\ engine.file.nodes = <<NoObject>>
  /\ \E i \in 1..Len(engine.file.edges) : isObject(engine.file.edges[i])
  /\ Len(NormalizedGraph.nodes) = 1
  /\ NormalizedGraph.edges = <<>>

\* How many records of the file normalizeGraph drops: the node, edge and
\* button entries that are no objects and the edge records not to keep.
SkippedRecords ==
  LET nodes == SelectSeq(engine.file.nodes, isObject)
      malformed(entries) == Len(entries) - Len(SelectSeq(entries, isObject))
      RECURSIVE buttonsSkipped(_)
      buttonsSkipped(i) ==
        IF i = 0 THEN 0
        ELSE malformed(nodes[i].buttons) + buttonsSkipped(i - 1)
  IN  malformed(engine.file.nodes)
        + (Len(engine.file.edges) - Len(SelectSeq(engine.file.edges, EdgeToKeep)))
        + buttonsSkipped(Len(nodes))

\* C23: when normalizeGraph drops records, the caller receives the count of
\* the skipped records together with the graph.
C23_SkippedCountReturned ==
  (Normalized /\ SkippedRecords > 0) =>
    engine.outcome.skipped = <<SkippedRecords>>

\* The first place of an entry in a path.
FirstAt(path, x) == CHOOSE i \in 1..Len(path) : path[i] = x /\ \A j \in 1..(i - 1) : path[j] /= x

\* The nodes of a graph that occur in its activePath.
NodesOnPath(g) == {x \in Ids(g.nodes) : \E i \in 1..Len(g.ui.activePath) : g.ui.activePath[i] = x}

\* A node with a selected outgoing edge whose target exists.
HasChosenTarget(g, n) ==
  /\ n \in DOMAIN g.ui.activeSelections
  /\ \E i \in 1..Len(g.ui.activeSelections[n]), k \in 1..Len(g.edges) :
       /\ g.edges[k].id = g.ui.activeSelections[n][i]
       /\ g.edges[k].from = n
       /\ g.edges[k].to /= NULL
       /\ g.edges[k].to \in Ids(g.nodes)

\* The end nodes are the path's nodes without a chosen target, each once and
\* in the order of their first occurrence.
EndsFollowPath(g) ==
  LET ends == collectActiveEndNodes(g)
  IN  /\ {ends[i] : i \in 1..Len(ends)} = {n \in NodesOnPath(g) : ~HasChosenTarget(g, n)}
      /\ \A i, j \in 1..Len(ends) :
           i < j => FirstAt(g.ui.activePath, ends[i]) < FirstAt(g.ui.activePath, ends[j])

SelectionsOnPath(g, ui) ==
  \A n \in DOMAIN ui.activeSelections :
    /\ n \in Ids(g.nodes)
    /\ Includes(ui.activePath, n)
    /\ \A i \in 1..Len(ui.activeSelections[n]) :
         Includes(ui.activePath, ui.activeSelections[n][i])

\* C25: after the repair pass and after every selection toggle the keys of
\* activeSelections are nodes on activePath and the edge ids listed in it
\* are entries of activePath; a toggle that takes a node off the path takes
\* the selections recorded at that node with it.
C25_SelectionsOnPath ==
  engine.pc = "toggling" =>
    /\ SelectionsOnPath(state.currentGraph, engine.start)
    /\ \A i \in Toggles :
         /\ SelectionsOnPath(state.currentGraph, UiAfter(i))
         /\ \A m \in DOMAIN UiBefore(i).activeSelections :
              ~Includes(UiAfter(i).activePath, m) =>
                m \notin DOMAIN UiAfter(i).activeSelections

\* An upstream choice was deselected and the selection at a node behind it
\* went with it.
C25_DownstreamForgotten ==
  \E i \in Toggles :
    /\ Includes(ChosenAt(UiBefore(i), ToggledEdge(i).from), ToggledEdge(i).id)
    /\ ~Includes(ChosenAt(UiAfter(i), ToggledEdge(i).from), ToggledEdge(i).id)
    /\ \E m \in DOMAIN UiBefore(i).activeSelections :
         /\ m /= ToggledEdge(i).from
         /\ m \notin DOMAIN UiAfter(i).activeSelections

\* The graph of the file as enforceGraphConsistency receives it at line 772.
BeforeRepair == normalizedRecords(fileRecords(engine.file))

\* The choices of a node that the path names, each once and in path order.
PathChoices(g, n) ==
  LET path == g.ui.activePath
      edges == enforceStructure(g).edges
      choiceAt(i) ==
        /\ \E k \in 1..Len(edges) : edges[k].id = path[i] /\ edges[k].from = n
        /\ \A j \in 1..(i - 1) : path[j] /= path[i]
  IN  SelectSeq([i \in 1..Len(path) |-> IF choiceAt(i) THEN path[i] ELSE NULL],
                LAMBDA x : x /= NULL)

\* The selection basis: activeSelections when one of its values is an array,
\* and else the choices the path names, by the node they leave.
SelectionBasis(g) ==
  IF \E k \in DOMAIN g.ui.activeSelections : g.ui.activeSelections[k] /= NotAnArray
    THEN g.ui.activeSelections
    ELSE LET froms == {enforceStructure(g).edges[k].from :
                         k \in 1..Len(enforceStructure(g).edges)}
         IN  [n \in {m \in froms : PathChoices(g, m) /= <<>>} |-> PathChoices(g, n)]

RepairedFrom(g, basis) ==
  enforceGraphConsistency([g EXCEPT !.ui.activeSelections = basis,
                                    !.ui.activePath = <<>>])

\* C26: enforceGraphConsistency takes activeSelections for the basis of the
\* selections when one of its values is an array, whatever the prior
\* activePath holds, and else assigns each existing edge id of the prior
\* activePath, in path order and once, to the node the edge leaves.
C26_SelectionBasis ==
  (engine.pc = "normalized" /\ validationError(engine.file, "graph") = NoError) =>
    /\ engine.outcome.error = NoError
    /\ NormalizedGraph = RepairedFrom(BeforeRepair, SelectionBasis(BeforeRepair))

\* C27: at most one autosave timer is pending, the one state.autosaveHandle
\* names; a timer set while one is pending takes its place, so the timers
\* set from the first one set while none was pending up to the one that
\* fires end in one write, of the graph as the last handler left it.
C27_OneTimerPending ==
  engine.pc = "autosave" =>
    /\ Cardinality(engine.timers) <= 1
    /\ engine.timers = IF engine.autosaveHandle = NoTimer
                         THEN {} ELSE {engine.autosaveHandle}
    /\ engine.bursts = engine.writes + Cardinality(engine.timers)
    /\ engine.op = "timeout" => engine.written = <<state.currentGraph>>

\* Three timers were set in a row and one write followed.
C27_BurstWrittenOnce ==
  /\ engine.pc = "autosave"
  /\ engine.op = "timeout"
  /\ engine.nextTimer = 4
  /\ engine.writes = 1
  /\ engine.timers = {}

\* The operations on the graph that are to leave an autosave pending.
GraphOperations ==
  {"addNode", "moveNode", "editNodeText", "setNodeColor", "toggleNodeType",
   "addChoice", "connect", "editChoiceText", "deleteChoice", "deleteNode",
   "toggleSelection", "clearPath"}

\* C28: an operation that has changed the graph in edit mode leaves an
\* autosave pending.
C28_AutosavePending ==
  (/\ engine.pc = "autosave"
   /\ engine.op \in GraphOperations
   /\ engine.changed
   /\ state.mode = "edit") =>
    /\ engine.autosaveHandle /= NoTimer
    /\ engine.autosaveHandle \in engine.timers

\* The graphs before and after differ in the type of node i alone.
Retyped(g, h, i) ==
  /\ Len(g.nodes) = Len(h.nodes)
  /\ i \in 1..Len(g.nodes)
  /\ g.edges = h.edges
  /\ g.nodes[i].type /= h.nodes[i].type

\* The edges with an existing target that the selections choose at a node
\* of S.
ChosenFrom(g, selections, S) ==
  {e \in Ids(g.edges) : \E k \in 1..Len(g.edges) :
     /\ g.edges[k].id = e
     /\ g.edges[k].from \in S
     /\ g.edges[k].from \in DOMAIN selections
     /\ Includes(selections[g.edges[k].from], e)
     /\ g.edges[k].to \in Ids(g.nodes)}

\* The nodes reached from the first node over chosen edges.
RECURSIVE ReachNodes(_, _, _, _)
ReachNodes(g, selections, S, rounds) ==
  IF rounds = 0 THEN S
  ELSE ReachNodes(g, selections,
         S \cup {g.edges[k].to : k \in {j \in 1..Len(g.edges) :
                                         g.edges[j].id \in ChosenFrom(g, selections, S)}},
         rounds - 1)

Reached(g, selections) ==
  IF g.nodes = <<>> THEN {}
  ELSE ReachNodes(g, selections, {g.nodes[1].id}, Len(g.nodes))

\* Node i turned XOR: its first selected edge is kept, and the selections
\* and the path hold only what is reached over the edges still selected.
TurnedXor(g, h, i) ==
  LET n == g.nodes[i].id
      old == g.ui.activeSelections
      kept == IF n \in DOMAIN old THEN [old EXCEPT ![n] = <<@[1]>>] ELSE old
      S == Reached(h, kept)
  IN  /\ ChosenAt(h.ui, n) = (IF n \in DOMAIN kept THEN kept[n] ELSE <<>>)
      /\ DOMAIN h.ui.activeSelections \subseteq S
      /\ \A x \in Range(h.ui.activePath) : x \in S \cup ChosenFrom(h, kept, S)

\* Node i turned OR: selections and path are as before.
TurnedOr(g, h, i) ==
  /\ h.ui.activeSelections = g.ui.activeSelections
  /\ h.ui.activePath = g.ui.activePath

\* C29: a node turned from OR to XOR keeps the first of its selected edges,
\* and neither the path nor the selections hold anything reached over the
\* retracted edges only; a node turned from XOR to OR leaves the selections
\* and the path as they were.
C29_TypeToggled ==
  [][(engine.pc \in {"loaded", "used"} /\ engine'.pc = "used") =>
       \A i \in 1..Len(engine.graph.nodes) :
         Retyped(engine.graph, engine'.graph, i) =>
           IF engine.graph.nodes[i].type = "xor"
             THEN TurnedOr(engine.graph, engine'.graph, i)
             ELSE TurnedXor(engine.graph, engine'.graph, i)]_vars

\* How often an entry occurs in a path.
Occurrences(path, x) == Cardinality({i \in 1..Len(path) : path[i] = x})

\* The selected edges a walk of the node follows: the first selected id
\* alone at an XOR node, and of these the edges that leave the node for an
\* existing node.
FollowedFrom(g, n) ==
  LET node == g.nodes[CHOOSE k \in 1..Len(g.nodes) : g.nodes[k].id = n]
      raw == IF n \in DOMAIN g.ui.activeSelections
               THEN g.ui.activeSelections[n] ELSE <<>>
      taken == IF node.type = "xor" /\ Len(raw) > 1 THEN <<raw[1]>> ELSE raw
  IN  {g.edges[k].id : k \in {j \in 1..Len(g.edges) :
                                /\ Includes(taken, g.edges[j].id)
                                /\ g.edges[j].from = n
                                /\ g.edges[j].to \in Ids(g.nodes)}}

\* The nodes of the calls that the running call was made from.
WalkAncestors ==
  {walkState.frames[j].nodeId : j \in 1..(Len(walkState.frames) - 1)}

\* A call of the walk records its node and returns at once exactly when the
\* node is among the nodes of the calls it was made from.
CutOnAncestorsOnly ==
  (/\ walkState.pc = "walking"
   /\ walkTop.phase = "call"
   /\ Len(walkState.path) < MaxPathLen) =>
    /\ walkState'.path = Append(walkState.path, walkTop.nodeId)
    /\ IF walkTop.nodeId \in WalkAncestors
         THEN /\ Len(walkState'.frames) = Len(walkState.frames) - 1
              /\ walkState'.cut
         ELSE /\ Len(walkState'.frames) = Len(walkState.frames)
              /\ walkState'.frames[Len(walkState.frames)].phase = "loop"
              /\ walkState'.cut = walkState.cut

\* The occurrences of the nodes that the followed edges 1..k into node n
\* leave, added up.
RECURSIVE ArrivalsAt(_, _, _, _, _)
ArrivalsAt(g, path, followed, n, k) ==
  IF k = 0 THEN 0
  ELSE ArrivalsAt(g, path, followed, n, k - 1)
         + (IF g.edges[k].id \in followed /\ g.edges[k].to = n
              THEN Occurrences(path, g.edges[k].from) ELSE 0)

\* In a walk without a cut every followed edge occurs as often as the node
\* it leaves, and every node once for each occurrence of a followed edge
\* that leads to it, the first node once more.
OncePerBranch ==
  (walkState.pc = "done" /\ ~walkState.cut) =>
    LET g == walkState.graph
        followed == UNION {FollowedFrom(g, n) : n \in Ids(g.nodes)}
    IN  /\ \A k \in 1..Len(g.edges) :
             Occurrences(walkState.path, g.edges[k].id) =
               IF g.edges[k].id \in followed
                 THEN Occurrences(walkState.path, g.edges[k].from) ELSE 0
        /\ \A n \in Ids(g.nodes) :
             Occurrences(walkState.path, n) =
               (IF n = g.nodes[1].id THEN 1 ELSE 0)
                 + ArrivalsAt(g, walkState.path, followed, n, Len(g.edges))

\* C30: the walk cuts the expansion of a node only when the node is reached
\* again on its own chain of ancestors; a node that two selected branches
\* lead to, without being an ancestor on either, is recorded and expanded
\* once for each branch.
C30_CutPerBranch == []OncePerBranch /\ [][CutOnAncestorsOnly]_vars

\* Two selected edges of the first node lead to one node, which is recorded
\* twice, each time with the edge selected at it.
C30_ReachedOverTwoBranches ==
  /\ walkState.pc = "done"
  /\ ~walkState.cut
  /\ \E n \in Ids(walkState.graph.nodes), e \in Ids(walkState.graph.edges) :
       /\ n /= walkState.graph.nodes[1].id
       /\ e \in FollowedFrom(walkState.graph, n)
       /\ Occurrences(walkState.path, n) = 2
       /\ Occurrences(walkState.path, e) = 2
       /\ Cardinality(FollowedFrom(walkState.graph, walkState.graph.nodes[1].id)) = 2

\* ------------------------------------------------------ the shape of the path

\* The entries at the odd places are node ids; the entry at an even place is
\* the id of an edge whose to is the next entry and whose from is at an
\* odd place before it.
Alternates(g) ==
  LET path == g.ui.activePath
  IN  /\ Len(path) % 2 = 1
      /\ \A i \in 1..Len(path) :
           IF i % 2 = 1 THEN hasNode(g, path[i])
           ELSE \E k \in 1..Len(g.edges) :
                  /\ g.edges[k].id = path[i]
                  /\ g.edges[k].to = path[i + 1]
                  /\ \E j \in 1..(i - 1) :
                       j % 2 = 1 /\ path[j] = g.edges[k].from

\* C31: the activePath that the repair pass derives for a graph with a node
\* has odd length, starts and ends with a node id and alternates node id
\* and edge id; each edge entry is followed by the id of the edge's to node
\* and the edge's from node occurs earlier in the path.
C31_PathAlternates ==
  Passed /\ engine.graph.nodes /= <<>> => Alternates(engine.graph)

\* A path with two branches: an edge entry that follows a node other than
\* its from node.
C31_SecondBranch ==
  /\ Passed
  /\ Len(engine.graph.ui.activePath) >= 5
  /\ Alternates(engine.graph)
  /\ \E i \in 1..Len(engine.graph.ui.activePath) :
       /\ i % 2 = 0
       /\ \A k \in 1..Len(engine.graph.edges) :
            engine.graph.edges[k].id = engine.graph.ui.activePath[i] =>
              engine.graph.edges[k].from /= engine.graph.ui.activePath[i - 1]

\* ------------------------------------------------------------ the root

\* The path starts at the first node; without a node there is no path and
\* no selection.
RootFirst(g) ==
  IF g.nodes = <<>>
    THEN g.ui.activePath = <<>> /\ g.ui.activeSelections = EmptyMap
    ELSE g.ui.activePath /= <<>> /\ g.ui.activePath[1] = g.nodes[1].id

\* C32: after every operation, activePath[0] is the id of graph.nodes[0]
\* when the graph has a node, also after the first node has been deleted,
\* and activePath and activeSelections are empty when it has none.
C32_RootFirst == RootFirst(state.currentGraph)

\* The starter node has been deleted and the path starts at the node that
\* came after it.
C32_NextNodeIsRoot ==
  /\ last.op = "deleteNode"
  /\ state.currentGraph.nodes /= <<>>
  /\ ~hasNode(state.currentGraph, createGraph.nodes[1].id)
  /\ state.currentGraph.ui.activePath[1] = state.currentGraph.nodes[1].id

\* ---------------------------------------------------- selected edges only

\* Each entry at an even place of the path, an edge entry, is listed in the
\* selections under the from node of the edge of that id.
PathEdgesSelected(g) ==
  \A i \in 1..Len(g.ui.activePath) :
    i % 2 = 0 =>
      \E k \in 1..Len(g.edges) :
        /\ g.edges[k].id = g.ui.activePath[i]
        /\ Includes(SelectionOf(g, g.edges[k].from), g.ui.activePath[i])

\* C33: after every repair pass, every edge id in activePath is listed in
\* activeSelections under the edge's from node.
C33_PathEdgesSelected == Passed => PathEdgesSelected(engine.graph)

\* ------------------------------------------------- the frame of a toggle

\* The nodes with their types and buttons and the edges are as they were,
\* and so are the mode and the id counters.
StructureKept ==
  /\ state'.currentGraph.nodes = state.currentGraph.nodes
  /\ state'.currentGraph.edges = state.currentGraph.edges
  /\ state'.mode = state.mode
  /\ state'.uidCount = state.uidCount

\* The selected node and the selected edge are as they were.
EditorSelectionKept ==
  /\ state'.currentGraph.ui.selectedNodeId = state.currentGraph.ui.selectedNodeId
  /\ state'.selectedEdgeId = state.selectedEdgeId

\* Lines 2055-2068: the click in edit mode clears the selected node and
\* selects the edge that is now chosen, or the dangling edge clicked.
EditorSelectionSet ==
  /\ state'.currentGraph.ui.selectedNodeId = NULL
  /\ state'.selectedEdgeId =
       IF \/ last'.result = "selected"
          \/ /\ hasEdge(state.currentGraph, last'.edgeId)
             /\ ~edgeHasTarget(findEdge(state.currentGraph, last'.edgeId))
         THEN last'.edgeId ELSE NULL

UnknownNodeId == "zz"

\* The calls that assignDanglingChoiceToNode refuses: the edge is unknown
\* or attached, the target is unknown or is the source of the edge.
Refused(g, edgeId, targetNodeId) ==
  \/ ~hasEdge(g, edgeId)
  \/ edgeHasTarget(findEdge(g, edgeId))
  \/ ~hasNode(g, targetNodeId)
  \/ findEdge(g, edgeId).from = targetNodeId

\* A refused call leaves the state as it is.
AssignRefusals ==
  \A edgeId \in EdgeIds \cup {UnknownEdgeId},
     targetNodeId \in NodeIds \cup {UnknownNodeId} :
    Refused(state.currentGraph, edgeId, targetNodeId) =>
      assignDanglingChoiceToNode(state, edgeId, targetNodeId) = state

NoSelfLoop(g) == \A k \in 1..Len(g.edges) : g.edges[k].to /= g.edges[k].from

\* An attached edge that is still there has the target it had.
TargetsKept ==
  \A k \in 1..Len(state.currentGraph.edges) :
    LET edge == state.currentGraph.edges[k]
    IN  edgeHasTarget(edge) =>
          \A j \in 1..Len(state'.currentGraph.edges) :
            state'.currentGraph.edges[j].id = edge.id =>
              state'.currentGraph.edges[j].to = edge.to

\* C35: assignDanglingChoiceToNode changes nothing when the edge is unknown
\* or already attached, or the target node is unknown or is the edge's own
\* source; from the starter graph no edit produces an edge whose to is its
\* from, and the target of an attached edge never changes.
C35_ConnectOnce ==
  /\ [](AssignRefusals /\ NoSelfLoop(state.currentGraph))
  /\ [][TargetsKept]_vars

\* One choice has been connected to a node and another is still dangling.
C35_OneConnectedOneDangling ==
  /\ state.mode = "edit"
  /\ \E k \in 1..Len(state.currentGraph.edges) :
       /\ edgeHasTarget(state.currentGraph.edges[k])
       /\ hasNode(state.currentGraph, state.currentGraph.edges[k].to)
  /\ \E k \in 1..Len(state.currentGraph.edges) :
       ~edgeHasTarget(state.currentGraph.edges[k])

\* ------------------------------------------------ autosave and the store

\* The last edit to the graph is not in its stored file.
Unsaved(graphId) ==
  /\ engine.pc = "store"
  /\ graphId \in DOMAIN engine.edited
  /\ \/ graphId \notin DOMAIN engine.store.files
     \/ engine.store.files[graphId].nodes /= engine.edited[graphId]

\* C36: an edit that has scheduled an autosave is eventually written to the
\* stored file of the graph it was made to, also when another graph is
\* loaded before the timer fires.
C36_EditEventuallyWritten ==
  \A graphId \in GraphIds : Unsaved(graphId) ~> ~Unsaved(graphId)

\* C37: once deleteCurrentGraphFlow has removed the stored file of a graph,
\* no later step writes that file again, also not an autosave timer that
\* fires while the flow awaits the removal or the load of the next graph.
C37_RemovedFileStaysRemoved ==
  engine.pc = "store" =>
    \A graphId \in engine.removed : graphId \notin DOMAIN engine.store.files

\* ------------------------------------------------------- the exported todo

\* The selections form a cycle: the walk has recorded a node twice.
PathRevisits(g) ==
  \E i, j \in 1..Len(g.ui.activePath) :
    /\ i < j /\ i % 2 = 1 /\ j % 2 = 1
    /\ g.ui.activePath[i] = g.ui.activePath[j]

\* C38 as stated: for every repaired graph with a node, whatever its
\* selections, collectActiveEndNodes returns at least one node, also when
\* the selections form a cycle.
C38_SomeEndNode ==
  Passed /\ engine.graph.nodes /= <<>> =>
    collectActiveEndNodes(engine.graph) /= <<>>

\* C38, amended: for every repaired graph with a node, collectActiveEndNodes
\* returns at least one node when the active path reaches no node twice;
\* when the selections form a cycle it may return none, and the todo list
\* then holds the placeholder entry, so that it always has an entry.
C38_EndNodeUnlessCycle ==
  Passed /\ engine.graph.nodes /= <<>> =>
    /\ ~PathRevisits(engine.graph) => collectActiveEndNodes(engine.graph) /= <<>>
    /\ buildMarkdownTodo(engine.graph) /= <<>>
    /\ collectActiveEndNodes(engine.graph) = <<>> =>
         buildMarkdownTodo(engine.graph) = <<NoEndNodes>>

\* A choice is selected and leads to another node, which is the one end
\* node.
C38_EndOfChosenBranch ==
  /\ Passed
  /\ Len(engine.graph.ui.activePath) = 3
  /\ ~PathRevisits(engine.graph)
  /\ DOMAIN engine.graph.ui.activeSelections /= {}
  /\ collectActiveEndNodes(engine.graph) = <<engine.graph.ui.activePath[3]>>

\* ------------------------------------------------------ save and load

\* The graph written by persistGraph and read back through normalizeGraph
\* has the nodes with their buttons, the edges, the selections and the path
\* of the graph that was written.
SavedAndLoaded(g) ==
  LET outcome == normalizeGraphOutcome(graphFile(g, "g_1"), "g_1")
  IN  /\ outcome.error = NoError
      /\ outcome.returned[1].nodes = g.nodes
      /\ outcome.returned[1].edges = g.edges
      /\ outcome.returned[1].ui.activeSelections = g.ui.activeSelections
      /\ outcome.returned[1].ui.activePath = g.ui.activePath

\* C39: for every graph the handlers reach from createGraph, the one
\* without a node included, normalizeGraph on the serialised graph returns
\* the same nodes, edges, buttons, activeSelections and activePath.
C39_SaveLoadLossless == SavedAndLoaded(state.currentGraph)

\* ------------------------------------------------------ stale selections

\* The selected node and the selected edge, when set, exist in the graph.
\* state.pendingChoice is null throughout.
SelectedExist(st) ==
  /\ \/ st.currentGraph.ui.selectedNodeId = NULL
     \/ hasNode(st.currentGraph, st.currentGraph.ui.selectedNodeId)
  /\ \/ st.selectedEdgeId = NULL
     \/ hasEdge(st.currentGraph, st.selectedEdgeId)

\* C40: after every operation and its render pass, ui.selectedNodeId is
\* null or the id of an existing node and state.selectedEdgeId is null or
\* the id of an existing edge; state.pendingChoice is null.
C40_SelectedExist == SelectedExist(state)

\* A file that names a selected node it does not hold has been imported
\* and is open, and no node is selected.
C40_StaleNodeCleared ==
  /\ engine.pc = "imported"
  /\ engine.file.ui.selectedNodeId = "x"
  /\ hasNode(state.currentGraph, "b")
  /\ ~hasNode(state.currentGraph, "x")
  /\ state.currentGraph.ui.selectedNodeId = NULL

====
